---- MODULE Spec2Model ----
(***************************************************************************)
(* A model of terraform-provider-warpgate: the target-options codec, the   *)
(* credential-policy codec, composite identifiers, and the resource        *)
(* operations (plan, create, read, delete) as they call the API client.    *)
(*                                                                         *)
(* Several specifications share one set of variables:                      *)
(*   SpecCodec      buildTargetOptions / setTargetOptions on drawn inputs  *)
(*   SpecPolicy     expandCredentialPolicy / flattenCredentialPolicy       *)
(*   SpecEntity     the role, user and target resources, the target data   *)
(*                  source                                                 *)
(*   SpecComposite  the resources addressed by a composite identifier      *)
(*   SpecResources  SpecEntity and SpecComposite together                  *)
(*   SpecClient     the provider's configuration, one call of the client   *)
(*   SpecOperation  one operation, request by request, with its timeout    *)
(*   SpecConcurrent two updates at the same time through the one client    *)
(***************************************************************************)
EXTENDS Integers, Sequences, FiniteSets, TLC

VARIABLES
    kind,      \* which resource (or which pure function family) this run is about
    cfg,       \* the configuration as d.Get returns it (the input of a pure run)
    d,         \* schema.ResourceData: the identifier and the attributes in state
    wire,      \* the value built for the API / what the client returned last
    upstream,  \* what the server holds
    calls,     \* the API calls issued by the operation that ran last
    diags,     \* what the operation that ran last returned
    op,        \* the operation that ran last
    phase      \* where the run is in its lifecycle

vars == <<kind, cfg, d, wire, upstream, calls, diags, op, phase>>

(***************************************************************************)
(* Go values.                                                              *)
(***************************************************************************)

\* A Go map with no keys (also the zero value of a map read from state).
EmptyMap == [x \in {} |-> x]

\* m[k] of a Go map: the zero value `nil` when the key is absent.
JNull == [t |-> "nil"]
JStr(s) == [t |-> "string", v |-> s]
JNum(f) == [t |-> "float64", v |-> f]
JBool(b) == [t |-> "bool", v |-> b]
JObj(m) == [t |-> "map", v |-> m]

MapGet(m, k) == IF k \in DOMAIN m THEN m[k] ELSE JNull

\* A Go int (64 bits) n = p53 * 2^53 + r with 0 <= r < 2^53, for n < 2^54.
GoInt(p53, r) == [p53 |-> p53, r |-> r]

\* encoding/json decodes every JSON number into a float64 when the target is
\* `any`: 53 bits of mantissa, round to nearest, ties to even.  Below 2^53 an
\* integer is exact; in [2^53, 2^54) only even integers are representable.
Float64OfInt(n) ==
    IF n.p53 = 0 THEN n
    ELSE IF n.r % 2 = 0 THEN n
    ELSE IF n.r % 4 = 1 THEN GoInt(n.p53, n.r - 1)
    ELSE GoInt(n.p53, n.r + 1)

\* int64(f) of a float64 holding an integer below 2^63 is exact.
IntOfFloat64(f) == f

\* A Go (value, error) result.
NilErr == [msg |-> "nil"]
Error(msg) == [msg |-> msg]
\* fmt.Errorf("...: %w", err)
Wrap(msg, err) == [msg |-> msg, cause |-> err]
Ok(v) == [ok |-> TRUE, val |-> v, err |-> NilErr]
Err(msg) == [ok |-> FALSE, err |-> Error(msg)]

(***************************************************************************)
(* encoding/json as the client's struct tags drive it.  A JSON text is     *)
(* modelled by its value tree; a number in a text is exact ("number"),     *)
(* and becomes a float64 when the text is decoded into `any`.              *)
(***************************************************************************)
TNum(n) == [t |-> "number", v |-> n]
JList(s) == [t |-> "list", v |-> s]

\* `json:"name,omitempty"`: the field is left out when it holds its zero value.
OmitEmpty(name, isZero, v) == IF isZero THEN EmptyMap ELSE (name :> v)

\* json.Marshal of client.TLS.
MarshalTLS(x) == JObj(("mode" :> JStr(x.Mode)) @@ ("verify" :> JBool(x.Verify)))

\* json.Marshal of the value behind client.SSHTargetAuth.
MarshalSSHAuth(a) ==
    IF a.type = "SSHTargetPasswordAuth"
    THEN JObj(("kind" :> JStr(a.Kind)) @@ ("password" :> JStr(a.Password)))
    ELSE JObj(("kind" :> JStr(a.Kind)))

MarshalHeaders(h) == JObj([k \in DOMAIN h |-> JStr(h[k])])

\* json.Marshal of the four option structs.
MarshalTargetOptions(o) ==
    CASE o.type = "TargetSSHOptions" ->
           JObj(("kind" :> JStr(o.Kind)) @@ ("host" :> JStr(o.Host))
                @@ ("port" :> TNum(o.Port)) @@ ("username" :> JStr(o.Username))
                @@ OmitEmpty("allow_insecure_algos", ~o.AllowInsecureAlgos,
                             JBool(o.AllowInsecureAlgos))
                @@ ("auth" :> MarshalSSHAuth(o.Auth)))
      [] o.type = "TargetHTTPOptions" ->
           JObj(("kind" :> JStr(o.Kind)) @@ ("url" :> JStr(o.URL))
                @@ ("tls" :> MarshalTLS(o.TLS))
                @@ OmitEmpty("headers", DOMAIN o.Headers = {}, MarshalHeaders(o.Headers))
                @@ OmitEmpty("external_host", o.ExternalHost = "", JStr(o.ExternalHost)))
      [] o.type \in {"TargetMySQLOptions", "TargetPostgresOptions"} ->
           JObj(("kind" :> JStr(o.Kind)) @@ ("host" :> JStr(o.Host))
                @@ ("port" :> TNum(o.Port)) @@ ("username" :> JStr(o.Username))
                @@ OmitEmpty("password", o.Password = "", JStr(o.Password))
                @@ ("tls" :> MarshalTLS(o.TLS)))

\* json.Unmarshal into `any`: objects become map[string]any, numbers float64.
RECURSIVE UnmarshalAny(_)
UnmarshalAny(j) ==
    CASE j.t = "number" -> JNum(Float64OfInt(j.v))
      [] j.t = "map" -> JObj([k \in DOMAIN j.v |-> UnmarshalAny(j.v[k])])
      [] OTHER -> j

\* json.Marshal of `any`: a struct by its tags; a value that was itself decoded
\* from JSON (the options of a target the API returned) prints as it was read.
JsonMarshal(options) ==
    IF "type" \in DOMAIN options THEN MarshalTargetOptions(options) ELSE options

\* targetOptionsToMap: marshal, then unmarshal into map[string]any.
targetOptionsToMap(options) ==
    LET result == UnmarshalAny(JsonMarshal(options))
    IN  IF result.t = "map" THEN Ok(result.v)
        ELSE IF result.t = "nil" THEN Ok(EmptyMap)
        ELSE Err("failed to unmarshal target options to map")

(***************************************************************************)
(* The target-options codec, build direction.                              *)
(***************************************************************************)

\* parseTLSConfig
parseTLSConfig(tlsData) ==
    IF Len(tlsData) = 0 THEN Err("tls configuration not provided")
    ELSE Ok([Mode |-> tlsData[1].mode, Verify |-> tlsData[1].verify])

\* buildSSHTargetOptions taking a block without auth for public-key auth
buildSSHTargetOptionsDefaultPublicKey(opts) ==
    LET base(auth) == [type |-> "TargetSSHOptions", Kind |-> "Ssh", Host |-> opts.host,
                       Port |-> opts.port, Username |-> opts.username,
                       AllowInsecureAlgos |-> opts.allow_insecure_algos, Auth |-> auth]
    IN  IF Len(opts.password_auth) > 0
        THEN Ok(base([type |-> "SSHTargetPasswordAuth", Kind |-> "Password",
                      Password |-> opts.password_auth[1].password]))
        ELSE Ok(base([type |-> "SSHTargetPublicKeyAuth", Kind |-> "PublicKey"]))

\* buildSSHTargetOptions
buildSSHTargetOptions(opts) ==
    LET base(auth) == [type |-> "TargetSSHOptions", Kind |-> "Ssh", Host |-> opts.host,
                       Port |-> opts.port, Username |-> opts.username,
                       AllowInsecureAlgos |-> opts.allow_insecure_algos, Auth |-> auth]
    IN  IF Len(opts.password_auth) > 0
        THEN Ok(base([type |-> "SSHTargetPasswordAuth", Kind |-> "Password",
                      Password |-> opts.password_auth[1].password]))
        ELSE IF Len(opts.public_key_auth) > 0
        THEN Ok(base([type |-> "SSHTargetPublicKeyAuth", Kind |-> "PublicKey"]))
        ELSE Err("SSH target requires either password_auth or public_key_auth")

\* buildHTTPTargetOptions
buildHTTPTargetOptions(opts) ==
    LET tls == parseTLSConfig(opts.tls)
    IN  IF ~tls.ok THEN Err("invalid TLS configuration for HTTP target")
        ELSE Ok([type |-> "TargetHTTPOptions", Kind |-> "Http", URL |-> opts.url,
                 TLS |-> tls.val, Headers |-> opts.headers,
                 ExternalHost |-> opts.external_host])

\* buildMysqlTargetOptions
buildMysqlTargetOptions(opts) ==
    LET tls == parseTLSConfig(opts.tls)
    IN  IF ~tls.ok THEN Err("invalid TLS configuration for MySQL target")
        ELSE Ok([type |-> "TargetMySQLOptions", Kind |-> "MySql", Host |-> opts.host,
                 Port |-> opts.port, Username |-> opts.username,
                 Password |-> opts.password, TLS |-> tls.val])

\* buildPostgresTargetOptions
buildPostgresTargetOptions(opts) ==
    LET tls == parseTLSConfig(opts.tls)
    IN  IF ~tls.ok THEN Err("invalid TLS configuration for PostgreSQL target")
        ELSE Ok([type |-> "TargetPostgresOptions", Kind |-> "Postgres", Host |-> opts.host,
                 Port |-> opts.port, Username |-> opts.username,
                 Password |-> opts.password, TLS |-> tls.val])

\* buildTargetOptions building a postgres_options block as MySQL options
buildTargetOptionsPostgresAsMySQL(c) ==
    IF Len(c.ssh_options) > 0 THEN buildSSHTargetOptions(c.ssh_options[1])
    ELSE IF Len(c.http_options) > 0 THEN buildHTTPTargetOptions(c.http_options[1])
    ELSE IF Len(c.mysql_options) > 0 THEN buildMysqlTargetOptions(c.mysql_options[1])
    ELSE IF Len(c.postgres_options) > 0 THEN buildMysqlTargetOptions(c.postgres_options[1])
    ELSE Err("no target options specified")

\* buildTargetOptions: the first populated block, in the order ssh, http, mysql,
\* postgres (d.GetOk is false for an empty list).
buildTargetOptions(c) ==
    IF Len(c.ssh_options) > 0 THEN buildSSHTargetOptions(c.ssh_options[1])
    ELSE IF Len(c.http_options) > 0 THEN buildHTTPTargetOptions(c.http_options[1])
    ELSE IF Len(c.mysql_options) > 0 THEN buildMysqlTargetOptions(c.mysql_options[1])
    ELSE IF Len(c.postgres_options) > 0 THEN buildPostgresTargetOptions(c.postgres_options[1])
    ELSE Err("no target options specified")

(***************************************************************************)
(* d.Set on a nested block, as the schema of resourceTarget drives it: a   *)
(* key that is absent or nil is left unset and reads back as the zero      *)
(* value of its type; a float64 is accepted for a TypeInt; a value of      *)
(* another type is an error.                                               *)
(***************************************************************************)
SetString(v) ==
    CASE v.t = "nil" -> Ok("")
      [] v.t = "string" -> Ok(v.v)
      [] OTHER -> Err("expected type string")

SetInt(v) ==
    CASE v.t = "nil" -> Ok(GoInt(0, 0))
      [] v.t = "float64" -> Ok(IntOfFloat64(v.v))
      [] OTHER -> Err("expected type int")

SetBool(v) ==
    CASE v.t = "nil" -> Ok(FALSE)
      [] v.t = "bool" -> Ok(v.v)
      [] OTHER -> Err("expected type bool")

\* TypeMap of TypeString ("headers")
SetStringMap(v) ==
    CASE v.t = "nil" -> Ok(EmptyMap)
      [] v.t = "map" ->
           IF \A k \in DOMAIN v.v : SetString(v.v[k]).ok
           THEN Ok([k \in DOMAIN v.v |-> SetString(v.v[k]).val])
           ELSE Err("expected type string")
      [] OTHER -> Err("expected type map")

\* the "tls" block: a list of at most one {mode, verify}
SetTLSList(v) ==
    CASE v.t = "nil" -> Ok(<<>>)
      [] v.t = "list" ->
           LET mode(i) == SetString(MapGet(v.v[i], "mode"))
               verify(i) == SetBool(MapGet(v.v[i], "verify"))
           IN  IF \A i \in 1..Len(v.v) : mode(i).ok /\ verify(i).ok
               THEN Ok([i \in 1..Len(v.v) |-> [mode |-> mode(i).val, verify |-> verify(i).val]])
               ELSE Err("tls: wrong type")
      [] OTHER -> Err("expected type list")

\* the "password_auth" block: a list of at most one {password}
SetPasswordAuthList(v) ==
    CASE v.t = "nil" -> Ok(<<>>)
      [] v.t = "list" ->
           LET pw(i) == SetString(MapGet(v.v[i], "password"))
           IN  IF \A i \in 1..Len(v.v) : pw(i).ok
               THEN Ok([i \in 1..Len(v.v) |-> [password |-> pw(i).val]])
               ELSE Err("password_auth: wrong type")
      [] OTHER -> Err("expected type list")

\* the "public_key_auth" block: a list of at most one block without attributes
SetPublicKeyAuthList(v) ==
    CASE v.t = "nil" -> Ok(<<>>)
      [] v.t = "list" -> Ok([i \in 1..Len(v.v) |-> EmptyMap])
      [] OTHER -> Err("expected type list")

\* d.Set("ssh_options", []any{sshOpts})
SetSSHBlock(m) ==
    LET host == SetString(MapGet(m, "host"))
        port == SetInt(MapGet(m, "port"))
        username == SetString(MapGet(m, "username"))
        algos == SetBool(MapGet(m, "allow_insecure_algos"))
        pw == SetPasswordAuthList(MapGet(m, "password_auth"))
        pk == SetPublicKeyAuthList(MapGet(m, "public_key_auth"))
    IN  IF host.ok /\ port.ok /\ username.ok /\ algos.ok /\ pw.ok /\ pk.ok
        THEN Ok(<<[host |-> host.val, port |-> port.val, username |-> username.val,
                   allow_insecure_algos |-> algos.val,
                   password_auth |-> pw.val, public_key_auth |-> pk.val]>>)
        ELSE Err("ssh_options: wrong type")

\* d.Set("http_options", []any{httpOpts})
SetHTTPBlock(m) ==
    LET url == SetString(MapGet(m, "url"))
        tls == SetTLSList(MapGet(m, "tls"))
        headers == SetStringMap(MapGet(m, "headers"))
        ext == SetString(MapGet(m, "external_host"))
    IN  IF url.ok /\ tls.ok /\ headers.ok /\ ext.ok
        THEN Ok(<<[url |-> url.val, tls |-> tls.val, headers |-> headers.val,
                   external_host |-> ext.val]>>)
        ELSE Err("http_options: wrong type")

\* d.Set("mysql_options", ...) and d.Set("postgres_options", ...): one schema
SetDatabaseBlock(m) ==
    LET host == SetString(MapGet(m, "host"))
        port == SetInt(MapGet(m, "port"))
        username == SetString(MapGet(m, "username"))
        password == SetString(MapGet(m, "password"))
        tls == SetTLSList(MapGet(m, "tls"))
    IN  IF host.ok /\ port.ok /\ username.ok /\ password.ok /\ tls.ok
        THEN Ok(<<[host |-> host.val, port |-> port.val, username |-> username.val,
                   password |-> password.val, tls |-> tls.val]>>)
        ELSE Err("database options: wrong type")

(***************************************************************************)
(* The target-options codec, read direction.                               *)
(***************************************************************************)

\* The four d.Set(block, []any{}) that open setTargetOptions.
ResetOptions(dd) ==
    [dd EXCEPT !.ssh_options = <<>>, !.http_options = <<>>,
               !.mysql_options = <<>>, !.postgres_options = <<>>]

\* tls, ok := optionsMap["tls"].(map[string]any); tlsOpts := {mode, verify}
TLSOpts(tls) == JList(<<("mode" :> MapGet(tls, "mode")) @@ ("verify" :> MapGet(tls, "verify"))>>)

\* case "Ssh" of setTargetOptions
SetSSHOptions(dd, optionsMap) ==
    LET sshOpts == ("host" :> MapGet(optionsMap, "host"))
                   @@ ("port" :> MapGet(optionsMap, "port"))
                   @@ ("username" :> MapGet(optionsMap, "username"))
                   @@ ("allow_insecure_algos" :> MapGet(optionsMap, "allow_insecure_algos"))
        auth == MapGet(optionsMap, "auth")
        authKind == MapGet(auth.v, "kind")
        withAuth ==
            IF authKind.v = "Password"
            THEN sshOpts @@ ("password_auth" :> JList(<<("password" :> MapGet(auth.v, "password"))>>))
            ELSE sshOpts @@ ("public_key_auth" :> JList(<<EmptyMap>>))
        set == SetSSHBlock(withAuth)
    IN  IF auth.t # "map" THEN [ok |-> FALSE, err |-> Error("invalid auth field in SSH options"), d |-> dd]
        ELSE IF authKind.t # "string"
        THEN [ok |-> FALSE, err |-> Error("missing 'kind' field in auth options"), d |-> dd]
        ELSE IF authKind.v \notin {"Password", "PublicKey"}
        THEN [ok |-> FALSE, err |-> Error("unknown SSH auth kind"), d |-> dd]
        ELSE IF ~set.ok THEN [ok |-> FALSE, err |-> set.err, d |-> dd]
        ELSE [ok |-> TRUE, err |-> NilErr, d |-> [dd EXCEPT !.ssh_options = set.val]]

\* case "Http" of setTargetOptions
SetHTTPOptions(dd, optionsMap) ==
    LET tls == MapGet(optionsMap, "tls")
        headers == MapGet(optionsMap, "headers")
        externalHost == MapGet(optionsMap, "external_host")
        httpOpts == ("url" :> MapGet(optionsMap, "url")) @@ ("tls" :> TLSOpts(tls.v))
                    @@ (IF headers.t = "map" /\ DOMAIN headers.v # {}
                        THEN ("headers" :> headers) ELSE EmptyMap)
                    @@ (IF externalHost.t = "string" /\ externalHost.v # ""
                        THEN ("external_host" :> externalHost) ELSE EmptyMap)
        set == SetHTTPBlock(httpOpts)
    IN  IF tls.t # "map" THEN [ok |-> FALSE, err |-> Error("invalid tls field in HTTP options"), d |-> dd]
        ELSE IF ~set.ok THEN [ok |-> FALSE, err |-> set.err, d |-> dd]
        ELSE [ok |-> TRUE, err |-> NilErr, d |-> [dd EXCEPT !.http_options = set.val]]

\* the map built by case "MySql" and by case "Postgres" of setTargetOptions
DatabaseOpts(optionsMap) ==
    LET password == MapGet(optionsMap, "password")
    IN  ("host" :> MapGet(optionsMap, "host")) @@ ("port" :> MapGet(optionsMap, "port"))
        @@ ("username" :> MapGet(optionsMap, "username"))
        @@ ("tls" :> TLSOpts(MapGet(optionsMap, "tls").v))
        @@ (IF password.t = "string" /\ password.v # ""
            THEN ("password" :> password) ELSE EmptyMap)

\* case "MySql" of setTargetOptions
SetMySQLOptions(dd, optionsMap) ==
    LET set == SetDatabaseBlock(DatabaseOpts(optionsMap))
    IN  IF MapGet(optionsMap, "tls").t # "map"
        THEN [ok |-> FALSE, err |-> Error("invalid tls field in MySQL options"), d |-> dd]
        ELSE IF ~set.ok THEN [ok |-> FALSE, err |-> set.err, d |-> dd]
        ELSE [ok |-> TRUE, err |-> NilErr, d |-> [dd EXCEPT !.mysql_options = set.val]]

\* case "Postgres" of setTargetOptions
SetPostgresOptions(dd, optionsMap) ==
    LET set == SetDatabaseBlock(DatabaseOpts(optionsMap))
    IN  IF MapGet(optionsMap, "tls").t # "map"
        THEN [ok |-> FALSE, err |-> Error("invalid tls field in PostgreSQL options"), d |-> dd]
        ELSE IF ~set.ok THEN [ok |-> FALSE, err |-> set.err, d |-> dd]
        ELSE [ok |-> TRUE, err |-> NilErr, d |-> [dd EXCEPT !.postgres_options = set.val]]

\* setTargetOptions without the four resets that open it
setTargetOptionsNoReset(dd, options) ==
    LET m == targetOptionsToMap(options)
        knd == MapGet(m.val, "kind")
    IN  IF ~m.ok THEN [ok |-> FALSE, err |-> m.err, d |-> dd]
        ELSE IF knd.t # "string"
        THEN [ok |-> FALSE, err |-> Error("missing 'kind' field in target options"), d |-> dd]
        ELSE CASE knd.v = "Ssh" -> SetSSHOptions(dd, m.val)
               [] knd.v = "Http" -> SetHTTPOptions(dd, m.val)
               [] knd.v = "MySql" -> SetMySQLOptions(dd, m.val)
               [] knd.v = "Postgres" -> SetPostgresOptions(dd, m.val)
               [] OTHER -> [ok |-> FALSE, err |-> Error("unknown target kind"), d |-> dd]

\* setTargetOptions: reset the four blocks, find the kind, fill its block.
setTargetOptions(dd, options) ==
    LET reset == ResetOptions(dd)
        m == targetOptionsToMap(options)
        knd == MapGet(m.val, "kind")
    IN  IF ~m.ok THEN [ok |-> FALSE, err |-> m.err, d |-> reset]
        ELSE IF knd.t # "string"
        THEN [ok |-> FALSE, err |-> Error("missing 'kind' field in target options"), d |-> reset]
        ELSE CASE knd.v = "Ssh" -> SetSSHOptions(reset, m.val)
               [] knd.v = "Http" -> SetHTTPOptions(reset, m.val)
               [] knd.v = "MySql" -> SetMySQLOptions(reset, m.val)
               [] knd.v = "Postgres" -> SetPostgresOptions(reset, m.val)
               [] OTHER -> [ok |-> FALSE, err |-> Error("unknown target kind"), d |-> reset]

(***************************************************************************)
(* SpecCodec: the codec on drawn configurations.                           *)
(***************************************************************************)
TLSModes == {"Disabled", "Preferred", "Required"}
TLSBlocks == {<<[mode |-> m, verify |-> v]>> : m \in TLSModes, v \in BOOLEAN}
\* "port" of ssh_options is validated by IsPortNumber; the ports of mysql_options
\* and postgres_options are any int: 0, a usual port, and 2^53 + 1.
SSHPorts == {GoInt(0, 22), GoInt(0, 65535)}
DatabasePorts == {GoInt(0, 0), GoInt(0, 3306), GoInt(1, 1)}
Passwords == {"", "s3cret"}
HeaderMaps == {EmptyMap, ("X-Env" :> "prod"), ("X-Env" :> "")}
ExternalHosts == {"", "ext.example.com"}

SSHBlocks ==
    {[host |-> "ssh.example.com", port |-> p, username |-> "root",
      allow_insecure_algos |-> a, password_auth |-> pw, public_key_auth |-> pk] :
        p \in SSHPorts, a \in BOOLEAN,
        pw \in {<<>>} \cup {<<[password |-> x]>> : x \in Passwords},
        pk \in {<<>>, <<EmptyMap>>}}
HTTPBlocks ==
    {[url |-> "https://app.example.com", tls |-> t, headers |-> h, external_host |-> e] :
        t \in TLSBlocks, h \in HeaderMaps, e \in ExternalHosts}
DatabaseBlocks ==
    {[host |-> "db.example.com", port |-> p, username |-> "admin", password |-> pw, tls |-> t] :
        p \in DatabasePorts, pw \in Passwords, t \in TLSBlocks}

NoOptions == [ssh_options |-> <<>>, http_options |-> <<>>,
              mysql_options |-> <<>>, postgres_options |-> <<>>]

\* The configurations of the codec runs: no block, or one populated block.
CodecConfigs ==
    {NoOptions}
    \cup {[NoOptions EXCEPT !.ssh_options = <<b>>] : b \in SSHBlocks}
    \cup {[NoOptions EXCEPT !.http_options = <<b>>] : b \in HTTPBlocks}
    \cup {[NoOptions EXCEPT !.mysql_options = <<b>>] : b \in DatabaseBlocks}
    \cup {[NoOptions EXCEPT !.postgres_options = <<b>>] : b \in DatabaseBlocks}

None == [t |-> "none"]

InitCodec ==
    /\ kind = "target_codec"
    /\ cfg \in CodecConfigs
    /\ d = NoOptions
    /\ wire = None
    /\ upstream = None
    /\ calls = <<>>
    /\ diags = NilErr
    /\ op = "none"
    /\ phase = "config"

\* buildTargetOptions(d) on the configuration
CodecBuild ==
    /\ kind = "target_codec" /\ phase = "config"
    /\ wire' = buildTargetOptions(cfg)
    /\ op' = "buildTargetOptions"
    /\ diags' = wire'.err
    /\ phase' = "built"
    /\ UNCHANGED <<kind, cfg, d, upstream, calls>>

\* setTargetOptions(d, options) on what buildTargetOptions returned
CodecSet ==
    /\ kind = "target_codec" /\ phase = "built" /\ wire.ok
    /\ LET r == setTargetOptions(d, wire.val)
       IN  /\ d' = r.d
           /\ diags' = r.err
    /\ op' = "setTargetOptions"
    /\ phase' = "set"
    /\ UNCHANGED <<kind, cfg, wire, upstream, calls>>

\* options as the API may return them, decoded into `any`: each kind well
\* formed, and payloads without a kind, with a kind or an SSH auth kind the code
\* does not know, without the auth or tls object, or with a port that is a string
OptionPayloads ==
    LET tls == JObj(("mode" :> JStr("Required")) @@ ("verify" :> JBool(TRUE)))
        ssh(auth) == JObj(("kind" :> JStr("Ssh")) @@ ("host" :> JStr("ssh.example.com"))
                          @@ ("port" :> JNum(GoInt(0, 22))) @@ ("username" :> JStr("root"))
                          @@ auth)
        db(k, port, t) == JObj(("kind" :> k) @@ ("host" :> JStr("db.example.com"))
                               @@ ("port" :> port) @@ ("username" :> JStr("admin")) @@ t)
    IN  {ssh(a) : a \in {("auth" :> JObj(("kind" :> JStr("Password")) @@ ("password" :> JStr("s3cret")))),
                         ("auth" :> JObj(("kind" :> JStr("PublicKey")))),
                         ("auth" :> JObj(("kind" :> JStr("Agent")))),
                         ("auth" :> JObj(EmptyMap)),
                         EmptyMap}}
        \cup {JObj(("kind" :> JStr("Http")) @@ ("url" :> JStr("https://app.example.com")) @@ t) :
                 t \in {("tls" :> tls), EmptyMap}}
        \cup {db(JStr(k), JNum(GoInt(0, 3306)), t) :
                 k \in {"MySql", "Postgres", "Redis", "ssh"}, t \in {("tls" :> tls), ("tls" :> JNull)}}
        \cup {db(JStr("Postgres"), JStr("5432"), ("tls" :> tls)),
              db(JNum(GoInt(0, 1)), JNum(GoInt(0, 3306)), ("tls" :> tls)),
              JObj(EmptyMap), JNull}

\* setTargetOptions(d, options) on options the API returned, over whatever the
\* blocks in d held before
CodecSetPayload ==
    /\ kind = "target_codec" /\ phase \in {"config", "set"}
    /\ \E options \in OptionPayloads :
          LET r == setTargetOptions(d, options)
          IN  /\ d' = r.d
              /\ diags' = r.err
              /\ wire' = Ok(options)
    /\ op' = "setTargetOptions"
    /\ phase' = "decoded"
    /\ UNCHANGED <<kind, cfg, upstream, calls>>

NextCodec == CodecBuild \/ CodecSet \/ CodecSetPayload

SpecCodec == InitCodec /\ [][NextCodec]_vars

\* The populated block of a configuration holds one kind of target: one block,
\* and for SSH exactly one of password_auth and public_key_auth.
PopulatedBlocks(c) ==
    {b \in {"ssh_options", "http_options", "mysql_options", "postgres_options"} : Len(c[b]) > 0}

OneTargetKind(c) ==
    /\ Cardinality(PopulatedBlocks(c)) = 1
    /\ Len(c.ssh_options) > 0 =>
         Len(c.ssh_options[1].password_auth) + Len(c.ssh_options[1].public_key_auth) = 1

\* C1: for each target kind and every populated options block, build then set
\* yields the four option blocks of the configuration, equal in every field.
C1_RoundTrip ==
    (kind = "target_codec" /\ phase = "set" /\ OneTargetKind(cfg)) => (diags = NilErr /\ d = cfg)

\* The port of the populated block, when it has one.
ConfiguredPorts(c) ==
    {c[b][1].port : b \in PopulatedBlocks(c) \ {"http_options"}}

\* C1, the part the code does satisfy: the round trip is exact whenever the port
\* is below 2^53 (every field, the zero values of the optional fields included).
C1_RoundTripExactPorts ==
    (kind = "target_codec" /\ phase = "set" /\ OneTargetKind(cfg)
        /\ \A p \in ConfiguredPorts(cfg) : p.p53 = 0)
    => (diags = NilErr /\ d = cfg)

\* C1: a run that decoded a MySQL or Postgres block whose port is above 2^53.
C1_BigPortDecoded ==
    /\ kind = "target_codec" /\ phase = "set" /\ OneTargetKind(cfg)
    /\ \E p \in ConfiguredPorts(cfg) : p.p53 = 1

\* the kind a payload carries ("" when it has none or it is not a string), and
\* the block that goes with a kind
PayloadKind(options) ==
    IF options.t = "map" /\ MapGet(options.v, "kind").t = "string"
    THEN MapGet(options.v, "kind").v ELSE ""
BlockOfKind(k) ==
    CASE k = "Ssh" -> "ssh_options" [] k = "Http" -> "http_options"
      [] k = "MySql" -> "mysql_options" [] k = "Postgres" -> "postgres_options"
      [] OTHER -> "none"
UnknownSSHAuthKind(options) ==
    /\ PayloadKind(options) = "Ssh"
    /\ LET auth == MapGet(options.v, "auth")
       IN  auth.t = "map" /\ MapGet(auth.v, "kind").t = "string"
           /\ MapGet(auth.v, "kind").v \notin {"Password", "PublicKey"}

Statuses == {200, 204, 404, 500}

\* the replies to a call: a transport failure, 200 with one of `bodies` as its
\* JSON object, or a status with an empty body
Replies(bodies) ==
    {[transport |-> TRUE, status |-> 0, body |-> [t |-> "text", v |-> ""]]}
    \cup {[transport |-> FALSE, status |-> 200, body |-> [t |-> "json", v |-> b]] : b \in bodies}
    \cup {[transport |-> FALSE, status |-> s, body |-> [t |-> "text", v |-> ""]] : s \in Statuses}

\* the record of one call in `calls`: the request, and of the reply whether the
\* transport failed, the status, and the body
Call(method, path, body, reply) ==
    [method |-> method, path |-> path, body |-> body,
     transport |-> reply.transport, status |-> reply.status, answer |-> reply.body]

\* the request doRequest builds, with the token header on every request
RequestAlwaysToken(token, method, path, body) ==
    [method |-> method, path |-> path, body |-> body,
     header |-> ("X-Warpgate-Token" :> token)
                @@ ("Content-Type" :> "application/json; charset=utf-8")
                @@ ("Accept" :> "application/json; charset=utf-8")]

\* the request doRequest builds and sends: the token header when c.token is not
\* empty, then Content-Type and Accept
Request(token, method, path, body) ==
    [method |-> method, path |-> path, body |-> body,
     header |-> (IF token # "" THEN ("X-Warpgate-Token" :> token) ELSE EmptyMap)
                @@ ("Content-Type" :> "application/json; charset=utf-8")
                @@ ("Accept" :> "application/json; charset=utf-8")]

\* doRequest: the response, or a transport error
doRequest(method, path, reply) ==
    IF reply.transport THEN [ok |-> FALSE, err |-> Wrap("request failed", Error("transport"))]
    ELSE Ok(reply)

\* the error handleResponse builds from a status >= 400: status code and body text
StatusError(status, body) ==
    [msg |-> "API request failed with status %d: %s", status |-> status, body |-> body]

\* a field of a decoded JSON object: the zero value when the key is absent
Field(obj, k, zero) == IF k \in DOMAIN obj THEN obj[k] ELSE zero

\* a Go slice that is not nil (a nil slice or pointer is JNull)
Slice(seq) == [t |-> "slice", v |-> seq]

\* *result before decoding: the zero value of the struct, nil for a slice.  The
\* identifiers of the resources addressed by a composite identifier are
\* sequences of characters, so that they can be split and joined.
Zero(entity) ==
    CASE entity = "Role" -> [ID |-> "", Name |-> "", Description |-> ""]
      [] entity = "User" -> [ID |-> "", Username |-> "", Description |-> "",
                             CredentialPolicy |-> JNull]
      [] entity = "Target" -> [ID |-> "", Name |-> "", Description |-> "",
                               AllowRoles |-> <<>>, Options |-> JNull]
      [] entity = "PasswordCredential" -> [ID |-> <<>>, Password |-> ""]
      [] entity = "PublicKeyCredential" ->
           [ID |-> <<>>, Label |-> "", OpensshPublicKey |-> "", DateAdded |-> "", LastUsed |-> ""]
      [] entity = "SsoCredential" -> [ID |-> <<>>, Provider |-> "", Email |-> ""]
      [] entity = "TicketAndSecret" -> [Ticket |-> [ID |-> ""], Secret |-> ""]
      [] OTHER -> JNull

\* json.Decode of a JSON object into the struct, by its tags; Target.Options is
\* `any` and decodes as UnmarshalAny does
Decode(entity, obj) ==
    CASE entity = "Role" ->
           [ID |-> Field(obj, "id", ""), Name |-> Field(obj, "name", ""),
            Description |-> Field(obj, "description", "")]
      [] entity = "User" ->
           [ID |-> Field(obj, "id", ""), Username |-> Field(obj, "username", ""),
            Description |-> Field(obj, "description", ""),
            CredentialPolicy |-> Field(obj, "credential_policy", JNull)]
      [] entity = "Target" ->
           [ID |-> Field(obj, "id", ""), Name |-> Field(obj, "name", ""),
            Description |-> Field(obj, "description", ""),
            AllowRoles |-> Field(obj, "allow_roles", <<>>),
            Options |-> UnmarshalAny(Field(obj, "options", JNull))]
      [] entity = "TicketAndSecret" ->
           [Ticket |-> [ID |-> Field(Field(obj, "ticket", EmptyMap), "id", "")],
            Secret |-> Field(obj, "secret", "")]
      [] entity = "[]Target" ->
           Slice([i \in 1..Len(obj) |->
                    [ID |-> Field(obj[i], "id", ""), Name |-> Field(obj[i], "name", ""),
                     Description |-> Field(obj[i], "description", ""),
                     AllowRoles |-> Field(obj[i], "allow_roles", <<>>),
                     Options |-> UnmarshalAny(Field(obj[i], "options", JNull))]])
      [] entity = "[]User" ->
           Slice([i \in 1..Len(obj) |->
                    [ID |-> Field(obj[i], "id", ""), Username |-> Field(obj[i], "username", ""),
                     Description |-> Field(obj[i], "description", ""),
                     CredentialPolicy |-> Field(obj[i], "credential_policy", JNull)]])
      [] entity = "[]Role" ->
           Slice([i \in 1..Len(obj) |->
                    [ID |-> Field(obj[i], "id", <<>>), Name |-> Field(obj[i], "name", ""),
                     Description |-> Field(obj[i], "description", "")]])
      [] entity = "PasswordCredential" ->
           [ID |-> Field(obj, "id", <<>>), Password |-> Field(obj, "password", "")]
      [] entity = "PublicKeyCredential" ->
           [ID |-> Field(obj, "id", <<>>), Label |-> Field(obj, "label", ""),
            OpensshPublicKey |-> Field(obj, "openssh_public_key", ""),
            DateAdded |-> Field(obj, "date_added", ""),
            LastUsed |-> Field(obj, "last_used", "")]
      [] entity = "[]PublicKeyCredential" ->
           Slice([i \in 1..Len(obj) |->
                    [ID |-> Field(obj[i], "id", <<>>), Label |-> Field(obj[i], "label", ""),
                     OpensshPublicKey |-> Field(obj[i], "openssh_public_key", ""),
                     DateAdded |-> Field(obj[i], "date_added", ""),
                     LastUsed |-> Field(obj[i], "last_used", "")]])
      [] entity = "SsoCredential" ->
           [ID |-> Field(obj, "id", <<>>), Provider |-> Field(obj, "provider", ""),
            Email |-> Field(obj, "email", "")]
      [] entity = "[]SsoCredential" ->
           Slice([i \in 1..Len(obj) |->
                    [ID |-> Field(obj[i], "id", <<>>), Provider |-> Field(obj[i], "provider", ""),
                     Email |-> Field(obj[i], "email", "")]])

\* handleResponse with an error that leaves the body text out
handleResponseStatusOnly(resp, entity) ==
    IF resp.status >= 400
    THEN [ok |-> FALSE, val |-> Zero(entity), err |-> StatusError(resp.status, "")]
    ELSE IF entity # "nil" /\ resp.status # 204
    THEN IF resp.body.t = "json" THEN Ok(Decode(entity, resp.body.v))
         ELSE [ok |-> FALSE, val |-> Zero(entity),
               err |-> Wrap("failed to decode response", Error("json"))]
    ELSE Ok(Zero(entity))

\* handleResponse that decodes the body of a 204 as well
handleResponseDecodesNoContent(resp, entity) ==
    IF resp.status >= 400
    THEN [ok |-> FALSE, val |-> Zero(entity), err |-> StatusError(resp.status, resp.body.v)]
    ELSE IF entity # "nil"
    THEN IF resp.body.t = "json" THEN Ok(Decode(entity, resp.body.v))
         ELSE [ok |-> FALSE, val |-> Zero(entity),
               err |-> Wrap("failed to decode response", Error("json"))]
    ELSE Ok(Zero(entity))

\* handleResponse(resp, result): `entity` names the type of *result, "nil" when
\* the caller passes no result.  *result is Zero(entity) when the caller passes
\* it; `val` is *result when handleResponse returns.
handleResponse(resp, entity) ==
    IF resp.status >= 400
    THEN [ok |-> FALSE, val |-> Zero(entity), err |-> StatusError(resp.status, resp.body.v)]
    ELSE IF entity # "nil" /\ resp.status # 204
    THEN IF resp.body.t = "json" THEN Ok(Decode(entity, resp.body.v))
         ELSE [ok |-> FALSE, val |-> Zero(entity),
               err |-> Wrap("failed to decode response", Error("json"))]
    ELSE Ok(Zero(entity))

\* what a method returns after handleResponse: its error with a nil entity, or
\* the entity decoded
ReturnResult(res) == IF ~res.ok THEN [ok |-> FALSE, err |-> res.err] ELSE res

\* a lookup that returns an empty entity on 404
GetByIDNotFoundIsZero(path, reply, entity) ==
    LET resp == doRequest("GET", path, reply)
    IN  IF ~resp.ok THEN resp
        ELSE IF resp.val.status = 404 THEN Ok(Zero(entity))
        ELSE ReturnResult(handleResponse(resp.val, entity))

\* a lookup that takes every error status for (nil, nil)
GetByIDErrorIsGone(path, reply, entity) ==
    LET resp == doRequest("GET", path, reply)
    IN  IF ~resp.ok THEN resp
        ELSE IF resp.val.status >= 400 THEN Ok(JNull)
        ELSE ReturnResult(handleResponse(resp.val, entity))

\* a lookup by ID (GetUser, GetRole, GetTarget): 404 is (nil, nil); an error of
\* handleResponse is returned with a nil entity
GetByID(path, reply, entity) ==
    LET resp == doRequest("GET", path, reply)
    IN  IF ~resp.ok THEN resp
        ELSE IF resp.val.status = 404 THEN Ok(JNull)
        ELSE ReturnResult(handleResponse(resp.val, entity))

\* a call that decodes a result (Create*, Update*, Add*Credential, Get*Roles)
CallForResult(method, path, reply, entity) ==
    LET resp == doRequest(method, path, reply)
    IN  IF ~resp.ok THEN resp ELSE ReturnResult(handleResponse(resp.val, entity))

\* a call that decodes nothing (Delete*, Add*Role): the error of handleResponse
CallNoResult(method, path, reply) ==
    LET resp == doRequest(method, path, reply)
    IN  IF ~resp.ok THEN resp ELSE ReturnResult(handleResponse(resp.val, "nil"))

\* The path a method hands to doRequest: the segments after the leading "/",
\* and the pieces of text that follow the last segment.
\* GetUsers formats the search term into the path.
GetUsersPath(search) ==
    [path |-> <<"users">>,
     tail |-> IF search # "" THEN <<"?", "search=", search>> ELSE <<>>]

\* GetRoles and GetTargets build a request for the path, add the search term to
\* the map that req.URL.Query() parses from the (empty) query of that request,
\* and hand req.URL.Path to doRequest: the map is not written back.
GetListPath(collection, search) ==
    LET req == [path |-> <<collection>>, rawQuery |-> <<>>]
        values == Append(req.rawQuery, <<"search", search>>)
    IN  [path |-> req.path, tail |-> <<>>]

\* url.URL.String() on a path: a "?" inside the path is written "%3F"
EscapePath(pieces) ==
    [i \in 1..Len(pieces) |-> IF pieces[i] = "?" THEN "%3F" ELSE pieces[i]]

\* the URL of the request doRequest sends for a path that starts with "/": the
\* whole of it is the Path of a new url.URL under the base path, which has no
\* query
RequestURL(p) == [path |-> p.path, tail |-> EscapePath(p.tail), query |-> <<>>]

(***************************************************************************)
(* Roles.                                                                  *)
(***************************************************************************)
\* GetRole without its 404 case
GetRoleAnyStatus(id, reply) == CallForResult("GET", <<"role", id>>, reply, "Role")
GetRole(id, reply) == GetByID(<<"role", id>>, reply, "Role")
CreateRole(reply) == CallForResult("POST", <<"roles">>, reply, "Role")
UpdateRole(id, reply) == CallForResult("PUT", <<"role", id>>, reply, "Role")
DeleteRole(id, reply) == CallNoResult("DELETE", <<"role", id>>, reply)

\* What an operation returns to the runtime, with what it left in d and the calls
\* it made; `ret` is what the client returned to it last.
Done(dd, err, cs, ret) == [d |-> dd, diags |-> err, calls |-> cs, ret |-> ret]

\* `return resource...Read(ctx, d, meta)` at the end of a create or an update:
\* the outcome is the read's, after the calls cs made before it
ReturnRead(cs, read) == Done(read.d, read.diags, cs \o read.calls, read.ret)

\* resourceRoleRead
resourceRoleRead(dd, reply) ==
    LET cs == <<Call("GET", <<"role", dd.id>>, JNull, reply)>>
        got(role) ==
            IF ~role.ok THEN Done(dd, Wrap("failed to read role", role.err), cs, role)
            ELSE IF role.val = JNull THEN Done([dd EXCEPT !.id = ""], NilErr, cs, role)
            ELSE Done([dd EXCEPT !.name = role.val.Name, !.description = role.val.Description],
                      NilErr, cs, role)
    IN  got(GetRole(dd.id, reply))

\* resourceRoleCreate
resourceRoleCreate(dd, reply) ==
    LET cs == <<Call("POST", <<"roles">>, [Name |-> dd.name, Description |-> dd.description], reply)>>
        created(role) ==
            IF ~role.ok THEN Done(dd, Wrap("failed to create role", role.err), cs, role)
            ELSE Done([dd EXCEPT !.id = role.val.ID], NilErr, cs, role)
    IN  created(CreateRole(reply))

\* resourceRoleUpdate
resourceRoleUpdate(dd, reply, readReply) ==
    LET cs == <<Call("PUT", <<"role", dd.id>>, [Name |-> dd.name, Description |-> dd.description], reply)>>
        updated(role) ==
            IF ~role.ok THEN Done(dd, Wrap("failed to update role", role.err), cs, role)
            ELSE ReturnRead(cs, resourceRoleRead(dd, readReply))
    IN  updated(UpdateRole(dd.id, reply))

\* a delete that leaves the identifier to the runtime
resourceRoleDeleteKeepsID(dd, reply) ==
    LET res == DeleteRole(dd.id, reply)
        cs == <<Call("DELETE", <<"role", dd.id>>, JNull, reply)>>
    IN  IF ~res.ok THEN Done(dd, Wrap("failed to delete role", res.err), cs, res)
        ELSE Done(dd, NilErr, cs, res)

\* resourceRoleDelete
resourceRoleDelete(dd, reply) ==
    LET res == DeleteRole(dd.id, reply)
        cs == <<Call("DELETE", <<"role", dd.id>>, JNull, reply)>>
    IN  IF ~res.ok THEN Done(dd, Wrap("failed to delete role", res.err), cs, res)
        ELSE Done([dd EXCEPT !.id = ""], NilErr, cs, res)

(***************************************************************************)
(* Users and the credential-policy codec.                                  *)
(***************************************************************************)
PolicyKeys == {"http", "ssh", "mysql", "postgres"}
validKinds == {"Password", "PublicKey", "Totp", "Sso", "WebUserApproval"}

\* validateUserConfig without its check of the keys
validateUserConfigKindsOnly(c) ==
    IF Len(c.credential_policy) = 0 THEN {NilErr}
    ELSE LET policy == c.credential_policy[1]
             errs == {[msg |-> "credential_policy.%s[%d]: %s is not a valid credential kind",
                       key |-> key] :
                         key \in {k \in DOMAIN policy :
                                    \E i \in 1..Len(policy[k]) : policy[k][i] \notin validKinds}}
         IN  IF errs = {} THEN {NilErr} ELSE errs

\* validateUserConfig: the errors it can return (Go visits the keys of the
\* policy map in any order and returns at the first key that fails), or nil.
validateUserConfig(c) ==
    IF Len(c.credential_policy) = 0 THEN {NilErr}
    ELSE LET policy == c.credential_policy[1]
             badKinds(key) == {i \in 1..Len(policy[key]) : policy[key][i] \notin validKinds}
             first(S) == CHOOSE i \in S : \A j \in S : i <= j
             errs == {[msg |-> "unknown credential policy key: %s", key |-> key] :
                         key \in DOMAIN policy \ PolicyKeys}
                     \cup {[msg |-> "credential_policy.%s[%d]: %s is not a valid credential kind",
                            key |-> key, index |-> first(badKinds(key))] :
                              key \in {k \in DOMAIN policy \cap PolicyKeys : badKinds(k) # {}}}
         IN  IF errs = {} THEN {NilErr} ELSE errs

\* expandCredentialKindList
expandCredentialKindList(list) == IF Len(list) = 0 THEN JNull ELSE Slice(list)

\* expandCredentialPolicy
expandCredentialPolicy(policyList) ==
    IF Len(policyList) = 0 THEN JNull
    ELSE LET policyMap == policyList[1]
             field(key) == IF key \in DOMAIN policyMap
                           THEN expandCredentialKindList(policyMap[key]) ELSE JNull
         IN  [HTTP |-> field("http"), SSH |-> field("ssh"),
              MySQL |-> field("mysql"), Postgres |-> field("postgres")]

\* flattenCredentialKindList: a nil []any when the list is empty
flattenCredentialKindList(list) == IF list = JNull \/ Len(list.v) = 0 THEN <<>> ELSE list.v

\* flattenCredentialPolicy that keeps every field, a nil one as an empty list
flattenCredentialPolicyAllFields(policy) ==
    IF policy = JNull THEN <<>>
    ELSE <<[http |-> flattenCredentialKindList(policy.HTTP),
            ssh |-> flattenCredentialKindList(policy.SSH),
            mysql |-> flattenCredentialKindList(policy.MySQL),
            postgres |-> flattenCredentialKindList(policy.Postgres)]>>

\* flattenCredentialPolicy: a nil []any for a nil policy, else a list of one map
\* holding a key for every field that is not nil
flattenCredentialPolicy(policy) ==
    IF policy = JNull THEN <<>>
    ELSE LET fieldOf == [http |-> policy.HTTP, ssh |-> policy.SSH,
                         mysql |-> policy.MySQL, postgres |-> policy.Postgres]
             present == {k \in PolicyKeys : fieldOf[k] # JNull}
         IN  <<[k \in present |-> flattenCredentialKindList(fieldOf[k])]>>

\* d.Set("credential_policy", ...) under the schema of resourceUser: a key the
\* map does not hold reads back as an empty list
SetCredentialPolicy(list) ==
    [i \in 1..Len(list) |->
        [k \in PolicyKeys |-> IF k \in DOMAIN list[i] THEN list[i][k] ELSE <<>>]]

GetUser(id, reply) == GetByID(<<"users", id>>, reply, "User")
CreateUser(reply) == CallForResult("POST", <<"users">>, reply, "User")
UpdateUser(id, reply) == CallForResult("PUT", <<"users", id>>, reply, "User")
DeleteUser(id, reply) == CallNoResult("DELETE", <<"users", id>>, reply)

\* client.UserUpdateRequest as resourceUserCreate and resourceUserUpdate fill it
UserUpdateRequest(dd) ==
    [Username |-> dd.username, Description |-> dd.description,
     CredentialPolicy |-> expandCredentialPolicy(dd.credential_policy)]

\* resourceUserRead
resourceUserRead(dd, reply) ==
    LET cs == <<Call("GET", <<"users", dd.id>>, JNull, reply)>>
        got(user) ==
            LET d1 == [dd EXCEPT !.username = user.val.Username,
                                 !.description = user.val.Description]
            IN  IF ~user.ok THEN Done(dd, Wrap("failed to read user", user.err), cs, user)
                ELSE IF user.val = JNull THEN Done([dd EXCEPT !.id = ""], NilErr, cs, user)
                ELSE IF user.val.CredentialPolicy # JNull
                THEN Done([d1 EXCEPT !.credential_policy =
                              SetCredentialPolicy(flattenCredentialPolicy(user.val.CredentialPolicy))],
                          NilErr, cs, user)
                ELSE Done(d1, NilErr, cs, user)
    IN  got(GetUser(dd.id, reply))

\* resourceUserCreate
resourceUserCreate(dd, createReply, updateReply, readReply) ==
    LET c1 == <<Call("POST", <<"users">>, [Username |-> dd.username, Description |-> dd.description], createReply)>>
        hasPolicy == Len(dd.credential_policy) > 0
        created(user) ==
            LET d1 == [dd EXCEPT !.id = user.val.ID]
                c2 == IF hasPolicy
                      THEN <<Call("PUT", <<"users", user.val.ID>>, UserUpdateRequest(dd), updateReply)>>
                      ELSE <<>>
                updated(upd) ==
                    IF hasPolicy /\ ~upd.ok
                    THEN Done(d1, Wrap("failed to set credential policy", upd.err), c1 \o c2, upd)
                    ELSE ReturnRead(c1 \o c2, resourceUserRead(d1, readReply))
            IN  IF ~user.ok THEN Done(dd, Wrap("failed to create user", user.err), c1, user)
                ELSE updated(UpdateUser(user.val.ID, updateReply))
    IN  created(CreateUser(createReply))

\* resourceUserUpdate
resourceUserUpdate(dd, updateReply, readReply) ==
    LET cs == <<Call("PUT", <<"users", dd.id>>, UserUpdateRequest(dd), updateReply)>>
        updated(upd) ==
            IF ~upd.ok THEN Done(dd, Wrap("failed to update user", upd.err), cs, upd)
            ELSE ReturnRead(cs, resourceUserRead(dd, readReply))
    IN  updated(UpdateUser(dd.id, updateReply))

\* resourceUserDelete
resourceUserDelete(dd, reply) ==
    LET res == DeleteUser(dd.id, reply)
        cs == <<Call("DELETE", <<"users", dd.id>>, JNull, reply)>>
    IN  IF ~res.ok THEN Done(dd, Wrap("failed to delete user", res.err), cs, res)
        ELSE Done([dd EXCEPT !.id = ""], NilErr, cs, res)

(***************************************************************************)
(* Targets.                                                                *)
(***************************************************************************)
\* validateTargetConfig without its upper bound on the populated blocks
validateTargetConfigAtLeastOne(c) ==
    IF \A block \in {"ssh_options", "http_options", "mysql_options", "postgres_options"} :
           Len(c[block]) = 0
    THEN Error("one of ssh_options, http_options, mysql_options, or postgres_options must be specified")
    ELSE NilErr

\* validateTargetConfig
validateTargetConfig(c) ==
    LET count == Cardinality({block \in {"ssh_options", "http_options",
                                         "mysql_options", "postgres_options"} :
                                 Len(c[block]) > 0})
    IN  IF count = 0
        THEN Error("one of ssh_options, http_options, mysql_options, or postgres_options must be specified")
        ELSE IF count > 1
        THEN Error("only one of ssh_options, http_options, mysql_options, postgres_option can be specified")
        ELSE NilErr

GetTarget(id, reply) == GetByID(<<"targets", id>>, reply, "Target")
CreateTarget(reply) == CallForResult("POST", <<"targets">>, reply, "Target")
UpdateTarget(id, reply) == CallForResult("PUT", <<"targets", id>>, reply, "Target")
DeleteTarget(id, reply) == CallNoResult("DELETE", <<"targets", id>>, reply)

\* client.TargetDataRequest
TargetDataRequest(dd, targetOptions) ==
    [Name |-> dd.name, Description |-> dd.description, Options |-> targetOptions]

\* resourceTargetRead
resourceTargetRead(dd, reply) ==
    LET cs == <<Call("GET", <<"targets", dd.id>>, JNull, reply)>>
        options(set, target) ==
            IF ~set.ok THEN Done(set.d, Wrap("failed to set target options", set.err), cs, target)
            ELSE Done(set.d, NilErr, cs, target)
        got(target) ==
            IF ~target.ok THEN Done(dd, Wrap("failed to read target", target.err), cs, target)
            ELSE IF target.val = JNull THEN Done([dd EXCEPT !.id = ""], NilErr, cs, target)
            ELSE options(setTargetOptions([dd EXCEPT !.name = target.val.Name,
                                                     !.description = target.val.Description,
                                                     !.allow_roles = target.val.AllowRoles],
                                          target.val.Options),
                         target)
    IN  got(GetTarget(dd.id, reply))

\* resourceTargetCreate
resourceTargetCreate(dd, createReply, readReply) ==
    LET built(targetOptions) ==
            LET cs == <<Call("POST", <<"targets">>, TargetDataRequest(dd, targetOptions.val),
                             createReply)>>
                created(target) ==
                    IF ~target.ok
                    THEN Done(dd, Wrap("failed to create target", target.err), cs, target)
                    ELSE ReturnRead(cs, resourceTargetRead([dd EXCEPT !.id = target.val.ID],
                                                           readReply))
            IN  IF ~targetOptions.ok
                THEN Done(dd, Wrap("failed to build target options", targetOptions.err),
                          <<>>, targetOptions)
                ELSE created(CreateTarget(createReply))
    IN  built(buildTargetOptions(dd))

\* resourceTargetUpdate going on to the read whatever UpdateTarget returned
resourceTargetUpdateThenRead(dd, updateReply, readReply) ==
    LET built(targetOptions) ==
            LET cs == <<Call("PUT", <<"targets", dd.id>>, TargetDataRequest(dd, targetOptions.val),
                             updateReply)>>
            IN  IF ~targetOptions.ok
                THEN Done(dd, Wrap("failed to build target options", targetOptions.err),
                          <<>>, targetOptions)
                ELSE ReturnRead(cs, resourceTargetRead(dd, readReply))
    IN  built(buildTargetOptions(dd))

\* resourceTargetUpdate
resourceTargetUpdate(dd, updateReply, readReply) ==
    LET built(targetOptions) ==
            LET cs == <<Call("PUT", <<"targets", dd.id>>, TargetDataRequest(dd, targetOptions.val),
                             updateReply)>>
                updated(target) ==
                    IF ~target.ok
                    THEN Done(dd, Wrap("failed to update target", target.err), cs, target)
                    ELSE ReturnRead(cs, resourceTargetRead(dd, readReply))
            IN  IF ~targetOptions.ok
                THEN Done(dd, Wrap("failed to build target options", targetOptions.err),
                          <<>>, targetOptions)
                ELSE updated(UpdateTarget(dd.id, updateReply))
    IN  built(buildTargetOptions(dd))

\* resourceTargetDelete
resourceTargetDelete(dd, reply) ==
    LET res == DeleteTarget(dd.id, reply)
        cs == <<Call("DELETE", <<"targets", dd.id>>, JNull, reply)>>
    IN  IF ~res.ok THEN Done(dd, Wrap("failed to delete target", res.err), cs, res)
        ELSE Done([dd EXCEPT !.id = ""], NilErr, cs, res)

\* GetTargets; the search term is added to a copy of the query and never sent
GetTargets(reply) == CallForResult("GET", <<"targets">>, reply, "[]Target")

\* a nil pointer dereferenced: the provider process panics
NilDereference == Error("panic: runtime error: invalid memory address or nil pointer dereference")

\* dataSourceTargetRead.  In the branch that looks the target up by its id,
\* `target, err := c.GetTarget(...)` declares a new target inside the block;
\* the target declared at the top of the function stays nil, and d.SetId
\* dereferences it.
dataSourceTargetRead(dd, reply) ==
    LET idOk == dd.id # ""
        nameOk == dd.name # ""
        options(set, cs, ret) ==
            IF ~set.ok THEN Done(set.d, Wrap("failed to set target options", set.err), cs, ret)
            ELSE Done(set.d, NilErr, cs, ret)
        fill(target, cs, ret) ==
            IF target = JNull THEN Done(dd, NilDereference, cs, ret)
            ELSE options(setTargetOptions([dd EXCEPT !.id = target.ID, !.name = target.Name,
                                                     !.description = target.Description,
                                                     !.allow_roles = target.AllowRoles],
                                          target.Options),
                         cs, ret)
        first(list, named, cs, ret) ==
            IF named = {}
            THEN Done(dd, [msg |-> "target with name %s not found", name |-> dd.name], cs, ret)
            ELSE fill(list[CHOOSE i \in named : \A j \in named : i <= j], cs, ret)
        search(list, cs, ret) ==
            first(list, {i \in 1..Len(list) : list[i].Name = dd.name}, cs, ret)
        byName(targets) ==
            LET cs == <<Call("GET", <<"targets">>, JNull, reply)>>
            IN  IF ~targets.ok
                THEN Done(dd, Wrap("failed to search targets", targets.err), cs, targets)
                ELSE search(IF targets.val = JNull THEN <<>> ELSE targets.val.v, cs, targets)
        byID(inner) ==
            LET cs == <<Call("GET", <<"targets", dd.id>>, JNull, reply)>>
            IN  IF ~inner.ok THEN Done(dd, Wrap("failed to read target", inner.err), cs, inner)
                ELSE IF inner.val = JNull
                THEN Done(dd, [msg |-> "target with ID %s not found", id |-> dd.id], cs, inner)
                ELSE fill(JNull, cs, inner)
    IN  IF ~idOk /\ ~nameOk
        THEN Done(dd, Error("either 'id' or 'name' must be specified"), <<>>, None)
        ELSE IF nameOk THEN byName(GetTargets(reply))
        ELSE byID(GetTarget(dd.id, reply))

(***************************************************************************)
(* Tickets.  There is no update, and no endpoint to fetch a ticket.        *)
(***************************************************************************)
CreateTicket(reply) == CallForResult("POST", <<"tickets">>, reply, "TicketAndSecret")
DeleteTicket(id, reply) == CallNoResult("DELETE", <<"tickets", id>>, reply)

\* resourceTicketCreate
resourceTicketCreate(dd, reply) ==
    LET cs == <<Call("POST", <<"tickets">>,
                     [Username |-> dd.username, TargetName |-> dd.target_name,
                      Expiry |-> dd.expiry, NumberOfUses |-> dd.number_of_uses,
                      Description |-> dd.description], reply)>>
        created(ticket) ==
            IF ~ticket.ok THEN Done(dd, Wrap("failed to create role", ticket.err), cs, ticket)
            ELSE Done([dd EXCEPT !.id = ticket.val.Ticket.ID, !.secret = ticket.val.Secret],
                      NilErr, cs, ticket)
    IN  created(CreateTicket(reply))

\* a read that takes the ticket for gone
resourceTicketReadGone(dd) == Done([dd EXCEPT !.id = ""], NilErr, <<>>, None)

\* resourceTicketRead: nothing is fetched
resourceTicketRead(dd) == Done(dd, NilErr, <<>>, None)

\* resourceTicketDelete: the identifier is left as it is
resourceTicketDelete(dd, reply) ==
    LET cs == <<Call("DELETE", <<"tickets", dd.id>>, JNull, reply)>>
        deleted(res) ==
            IF ~res.ok THEN Done(dd, Wrap("failed to delete ticket", res.err), cs, res)
            ELSE Done(dd, NilErr, cs, res)
    IN  deleted(DeleteTicket(dd.id, reply))

(***************************************************************************)
(* SpecEntity: a role, a user, a target or a ticket through plan, create,  *)
(* read, update and delete, and the target data source through its read.   *)
(***************************************************************************)
\* credential_policy blocks: maps from a few key sets to a few kind lists
SamplePolicies ==
    UNION {[keys -> {<<>>, <<"Password">>, <<"PublicKey", "Totp">>, <<"Sso", "WebUserApproval">>,
                     <<"Fingerprint">>, <<"Password", "Fingerprint">>, <<"password">>}] :
              keys \in {{}, {"http"}, {"ssh"}, {"http", "ssh"}, {"mysql", "postgres"},
                        {"ldap"}, {"http", "ldap"}}}

SampleSSH == [host |-> "ssh.example.com", port |-> GoInt(0, 22), username |-> "root",
              allow_insecure_algos |-> FALSE,
              password_auth |-> <<[password |-> "s3cret"]>>, public_key_auth |-> <<>>]
SampleHTTP == [url |-> "https://app.example.com", tls |-> <<[mode |-> "Preferred", verify |-> TRUE]>>,
               headers |-> EmptyMap, external_host |-> ""]
SampleDatabase == [host |-> "db.example.com", port |-> GoInt(0, 3306), username |-> "admin",
                   password |-> "", tls |-> <<[mode |-> "Required", verify |-> TRUE]>>]
\* the configurations of a run.  A target: every way of populating the four
\* option blocks; an SSH block holds each of its auth blocks or not.  The
\* target data source: an id, a name, both or neither ("" is an attribute
\* left out or set to the empty string).
Configs(k) ==
    CASE k = "role" -> {[name |-> "dev", description |-> x] : x \in {"", "developers"}}
      [] k = "user" ->
           {[username |-> "alice", description |-> "", credential_policy |-> p] :
               p \in {<<>>} \cup {<<m>> : m \in SamplePolicies}}
      [] k = "target" ->
           {[name |-> "box", description |-> "", ssh_options |-> s, http_options |-> h,
             mysql_options |-> m, postgres_options |-> p] :
               s \in {<<>>} \cup {<<[SampleSSH EXCEPT !.password_auth = pw, !.public_key_auth = pk]>> :
                                      pw \in {<<>>, SampleSSH.password_auth},
                                      pk \in {<<>>, <<EmptyMap>>}},
               h \in {<<>>, <<SampleHTTP>>},
               m \in {<<>>, <<SampleDatabase>>},
               p \in {<<>>, <<SampleDatabase>>}}
      [] k = "target_data" -> {[id |-> i, name |-> n] : i \in {"", "t1"}, n \in {"", "box", "web"}}
      [] k = "ticket" ->
           {[username |-> "alice", target_name |-> "box", expiry |-> "",
             number_of_uses |-> GoInt(0, n), description |-> ""] : n \in {0, 1}}

\* the JSON objects a reply to a call about a role, a user or a target may carry
Bodies(k) ==
    CASE k = "role" -> {[id |-> "r1", name |-> "dev", description |-> "developers"], EmptyMap}
      [] k = "user" ->
           {[id |-> "u1", username |-> "alice", description |-> "",
             credential_policy |-> [HTTP |-> Slice(<<"Password", "Totp">>), SSH |-> Slice(<<>>),
                                    MySQL |-> JNull, Postgres |-> JNull]],
            [id |-> "u1", username |-> "alice"]}
      [] k = "target" ->
           {[id |-> "t1", name |-> "box", description |-> "", allow_roles |-> <<"r1">>,
             options |-> MarshalTargetOptions(buildMysqlTargetOptions(SampleDatabase).val)],
            [id |-> "t1", name |-> "box",
             options |-> MarshalTargetOptions(buildSSHTargetOptions(SampleSSH).val)]}
      [] k = "ticket" ->
           {[ticket |-> [id |-> "k1", username |-> "alice"], secret |-> "s3cr3t"],
            [secret |-> "s3cr3t"], EmptyMap}
      [] k = "[]Target" ->
           {<<>>,
            <<[id |-> "t1", name |-> "box",
               options |-> MarshalTargetOptions(buildSSHTargetOptions(SampleSSH).val)]>>,
            <<[id |-> "t2", name |-> "db", options |-> JNull],
              [id |-> "t1", name |-> "box", description |-> "", allow_roles |-> <<"r1">>,
               options |-> MarshalTargetOptions(buildMysqlTargetOptions(SampleDatabase).val)]>>}

\* d before anything is planned: no identifier, every attribute at its zero value
ZeroState(k) ==
    CASE k = "role" -> [id |-> "", name |-> "", description |-> ""]
      [] k = "user" -> [id |-> "", username |-> "", description |-> "", credential_policy |-> <<>>]
      [] k \in {"target", "target_data"} ->
                         [id |-> "", name |-> "", description |-> "", allow_roles |-> <<>>,
                          ssh_options |-> <<>>, http_options |-> <<>>,
                          mysql_options |-> <<>>, postgres_options |-> <<>>]
      [] k = "ticket" -> [id |-> "", username |-> "", target_name |-> "", expiry |-> "",
                          number_of_uses |-> GoInt(0, 0), description |-> "", secret |-> ""]
      [] k = "user_role" -> [id |-> <<>>, user_id |-> <<>>, role_id |-> <<>>]
      [] k = "target_role" -> [id |-> <<>>, target_id |-> <<>>, role_id |-> <<>>]
      [] k = "password_credential" -> [id |-> <<>>, user_id |-> <<>>, password |-> ""]
      [] k = "public_key_credential" ->
           [id |-> <<>>, user_id |-> <<>>, label |-> "", public_key |-> "",
            date_added |-> "", last_used |-> ""]
      [] k = "user_sso_credential" ->
           [id |-> <<>>, user_id |-> <<>>, sso_provider |-> "", email |-> ""]

\* d as an operation receives it: the planned configuration over the state
WithConfig(dd, c) == [k \in DOMAIN dd |-> IF k \in DOMAIN c THEN c[k] ELSE dd[k]]

InitEntity ==
    /\ kind \in {"role", "user", "target", "target_data", "ticket"}
    /\ cfg \in Configs(kind)
    /\ d = ZeroState(kind)
    /\ wire = None
    /\ upstream = None
    /\ calls = <<>>
    /\ diags = NilErr
    /\ op = "none"
    /\ phase = "config"

\* the plan: CustomizeDiff runs on the configuration; an error rejects the plan
\* and nothing is applied
Planned(name, err) ==
    /\ op' = name
    /\ diags' = err
    /\ phase' = IF err = NilErr THEN "planned" ELSE "rejected"
    /\ d' = IF err = NilErr THEN WithConfig(d, cfg) ELSE d
    /\ UNCHANGED <<kind, cfg, wire, upstream, calls>>

\* resourceRole has no CustomizeDiff
RolePlan == kind = "role" /\ phase = "config" /\ Planned("plan", NilErr)
UserPlan ==
    /\ kind = "user" /\ phase = "config"
    /\ \E err \in validateUserConfig(cfg) : Planned("validateUserConfig", err)
\* The schema's ConflictsWith between password_auth and public_key_auth of
\* ssh_options, which the runtime enforces when it validates a configuration.
\* (The four option blocks conflict with one another as well; a configuration
\* that validateTargetConfig accepts has one block and passes those.)
ConflictsWith(c) ==
    IF /\ Len(c.ssh_options) > 0
       /\ Len(c.ssh_options[1].password_auth) > 0
       /\ Len(c.ssh_options[1].public_key_auth) > 0
    THEN Error("ssh_options.0.password_auth: conflicts with ssh_options.0.public_key_auth")
    ELSE NilErr

\* a target before anything is applied: validateTargetConfig (CustomizeDiff) on
\* the option blocks, ConflictsWith on the auth blocks; either rejects the
\* configuration
TargetPlan ==
    /\ kind = "target" /\ phase = "config"
    /\ IF validateTargetConfig(cfg) = NilErr /\ ConflictsWith(cfg) # NilErr
       THEN /\ op' = "ConflictsWith"
            /\ diags' = ConflictsWith(cfg)
            /\ phase' = "conflict"
            /\ UNCHANGED <<kind, cfg, d, wire, upstream, calls>>
       ELSE Planned("validateTargetConfig", validateTargetConfig(cfg))

\* what the runtime keeps of an operation's outcome: a resource whose identifier
\* is empty is not (or no longer) in state, and neither is one whose delete
\* returned no error
Finish(name, r) ==
    /\ op' = name
    /\ d' = r.d
    /\ diags' = r.diags
    /\ calls' = r.calls
    /\ wire' = r.ret
    /\ phase' = IF name = "delete" /\ r.diags = NilErr THEN "gone"
                ELSE IF Len(r.d.id) > 0 THEN "created"
                ELSE IF r.diags = NilErr THEN "gone" ELSE "failed"
    /\ UNCHANGED <<kind, cfg, upstream>>

\* the replies to the GET of a read: those of every call, and a refusal
ReadReplies(k) ==
    Replies(Bodies(k))
    \cup {[transport |-> FALSE, status |-> s, body |-> [t |-> "text", v |-> "forbidden"]] :
             s \in {401, 403}}

RoleCreate ==
    /\ kind = "role" /\ phase = "planned"
    /\ \E r1 \in Replies(Bodies("role")) : Finish("create", resourceRoleCreate(d, r1))
RoleRead ==
    /\ kind = "role" /\ phase = "created"
    /\ \E r1 \in ReadReplies("role") : Finish("read", resourceRoleRead(d, r1))
RoleUpdate ==
    /\ kind = "role" /\ phase = "created"
    /\ \E r1, r2 \in Replies(Bodies("role")) :
          Finish("update", resourceRoleUpdate(WithConfig(d, cfg), r1, r2))
RoleDelete ==
    /\ kind = "role" /\ phase = "created"
    /\ \E r1 \in Replies(Bodies("role")) : Finish("delete", resourceRoleDelete(d, r1))

UserCreate ==
    /\ kind = "user" /\ phase = "planned"
    /\ \E r1, r2, r3 \in Replies(Bodies("user")) : Finish("create", resourceUserCreate(d, r1, r2, r3))
UserRead ==
    /\ kind = "user" /\ phase = "created"
    /\ \E r1 \in ReadReplies("user") : Finish("read", resourceUserRead(d, r1))
UserUpdate ==
    /\ kind = "user" /\ phase = "created"
    /\ \E r1, r2 \in Replies(Bodies("user")) :
          Finish("update", resourceUserUpdate(WithConfig(d, cfg), r1, r2))
UserDelete ==
    /\ kind = "user" /\ phase = "created"
    /\ \E r1 \in Replies(Bodies("user")) : Finish("delete", resourceUserDelete(d, r1))

TargetCreate ==
    /\ kind = "target" /\ phase = "planned"
    /\ \E r1, r2 \in Replies(Bodies("target")) : Finish("create", resourceTargetCreate(d, r1, r2))
TargetRead ==
    /\ kind = "target" /\ phase = "created"
    /\ \E r1 \in ReadReplies("target") : Finish("read", resourceTargetRead(d, r1))
TargetUpdate ==
    /\ kind = "target" /\ phase = "created"
    /\ \E r1, r2 \in Replies(Bodies("target")) :
          Finish("update", resourceTargetUpdate(WithConfig(d, cfg), r1, r2))
TargetDelete ==
    /\ kind = "target" /\ phase = "created"
    /\ \E r1 \in Replies(Bodies("target")) : Finish("delete", resourceTargetDelete(d, r1))

\* resourceTicket has no CustomizeDiff
TicketPlan == kind = "ticket" /\ phase = "config" /\ Planned("plan", NilErr)
TicketCreate ==
    /\ kind = "ticket" /\ phase = "planned"
    /\ \E r1 \in Replies(Bodies("ticket")) : Finish("create", resourceTicketCreate(d, r1))
TicketRead == kind = "ticket" /\ phase = "created" /\ Finish("read", resourceTicketRead(d))
TicketDelete ==
    /\ kind = "ticket" /\ phase = "created"
    /\ \E r1 \in Replies({}) : Finish("delete", resourceTicketDelete(d, r1))

\* the data source has no CustomizeDiff; AtLeastOneOf("id", "name") is met by
\* an attribute set to the empty string
DataSourceTargetPlan == kind = "target_data" /\ phase = "config" /\ Planned("plan", NilErr)
\* dataSourceTargetRead, answered with a list of targets when it searches by
\* name and with one target when it looks the id up
DataSourceTargetRead ==
    /\ kind = "target_data" /\ phase = "planned"
    /\ \E reply \in Replies(Bodies(IF d.name # "" THEN "[]Target" ELSE "target")) :
          Finish("data_read", dataSourceTargetRead(d, reply))

NextEntity ==
    \/ RolePlan \/ RoleCreate \/ RoleRead \/ RoleUpdate \/ RoleDelete
    \/ UserPlan \/ UserCreate \/ UserRead \/ UserUpdate \/ UserDelete
    \/ TargetPlan \/ TargetCreate \/ TargetRead \/ TargetUpdate \/ TargetDelete
    \/ DataSourceTargetPlan \/ DataSourceTargetRead
    \/ TicketPlan \/ TicketCreate \/ TicketRead \/ TicketDelete

SpecEntity == InitEntity /\ [][NextEntity]_vars

(***************************************************************************)
(* Properties of SpecEntity.                                               *)
(***************************************************************************)

\* C2: a target configuration with no populated options block, or with two or
\* more, is rejected by validateTargetConfig with an error and no API request is
\* issued for it; a configuration with exactly one populated block passes.
C2_TargetValidation ==
    (kind = "target" /\ phase # "config") =>
        IF Cardinality(PopulatedBlocks(cfg)) = 1
        THEN phase # "rejected"
        ELSE phase = "rejected" /\ op = "validateTargetConfig" /\ diags # NilErr /\ calls = <<>>

\* C2: a configuration with two populated blocks has been rejected
C2_TwoBlocksRejected ==
    /\ kind = "target" /\ phase = "rejected"
    /\ Cardinality(PopulatedBlocks(cfg)) = 2

\* the policy block of a configuration names only the four protocols and lists
\* only the five kinds
KnownKeysAndKinds(c) ==
    \A i \in 1..Len(c.credential_policy) :
        \A key \in DOMAIN c.credential_policy[i] :
            /\ key \in {"http", "ssh", "mysql", "postgres"}
            /\ \A j \in 1..Len(c.credential_policy[i][key]) :
                  c.credential_policy[i][key][j] \in
                      {"Password", "PublicKey", "Totp", "Sso", "WebUserApproval"}

\* C6: validateUserConfig accepts a credential policy iff every key is one of
\* http, ssh, mysql, postgres and every kind is one of the five known kinds; a
\* rejection carries an error and comes before any API request for the user.
C6_UserValidation ==
    (kind = "user" /\ phase # "config") =>
        /\ KnownKeysAndKinds(cfg) <=> phase # "rejected"
        /\ phase = "rejected" => (op = "validateUserConfig" /\ diags # NilErr /\ calls = <<>>)

\* C6: a policy with key "ldap" over known kinds has been rejected
C6_LdapRejected ==
    /\ kind = "user" /\ phase = "rejected"
    /\ \E m \in SamplePolicies :
          /\ cfg.credential_policy = <<m>>
          /\ "ldap" \in DOMAIN m
          /\ \A key \in DOMAIN m : \A j \in 1..Len(m[key]) : m[key][j] \in validKinds

\* C8: when the API answers 404 to the lookup of a read, the client returns a nil
\* entity and no error, and the read of the role, user or target empties the
\* identifier, returns no error and changes no other attribute.
C8_ReadNotFound ==
    [][(kind \in {"role", "user", "target"} /\ phase = "created" /\ op' = "read"
          /\ calls'[1].status = 404)
          => (wire' = Ok(JNull) /\ diags' = NilErr /\ d' = [d EXCEPT !.id = ""])]_vars

\* C8: a read of a target with attributes in state was answered 404
C8_TargetReadNotFound ==
    /\ kind = "target" /\ op = "read" /\ calls[1].status = 404
    /\ d.name = "box" /\ d.allow_roles = <<"r1">> /\ Len(d.mysql_options) = 1

\* the kind literal that goes with a configuration block
KindOfBlock(b) ==
    CASE b = "ssh_options" -> "Ssh" [] b = "http_options" -> "Http"
      [] b = "mysql_options" -> "MySql" [] b = "postgres_options" -> "Postgres"

\* C16: every create or update request for a target carries one options variant
\* whose kind literal matches the one populated block of the configuration
\* (ssh_options "Ssh", http_options "Http", mysql_options "MySql",
\* postgres_options "Postgres"); with no block populated buildTargetOptions
\* returns an error and no request is sent.
C16_KindMatchesBlock ==
    kind = "target" =>
        /\ \A i \in 1..Len(calls) :
              calls[i].method \in {"POST", "PUT"} =>
                 /\ PopulatedBlocks(cfg) = {b \in DOMAIN NoOptions :
                                               KindOfBlock(b) = calls[i].body.Options.Kind}
                 /\ MapGet(MarshalTargetOptions(calls[i].body.Options).v, "kind")
                       = JStr(calls[i].body.Options.Kind)
        /\ PopulatedBlocks(cfg) = {} => (~buildTargetOptions(cfg).ok /\ calls = <<>>)

\* C16: the update of a target configured with postgres_options sent "Postgres"
C16_PostgresUpdateSent ==
    /\ kind = "target" /\ op = "update" /\ PopulatedBlocks(cfg) = {"postgres_options"}
    /\ calls[1].method = "PUT" /\ calls[1].body.Options.Kind = "Postgres"

\* C17: an SSH options block holds exactly one of password_auth and
\* public_key_auth: with password_auth alone every request carries auth kind
\* "Password" and the given password, with public_key_auth alone auth kind
\* "PublicKey"; a block with neither or with both is rejected with an error and
\* no request is ever sent for it.
C17_ExactlyOneSSHAuth ==
    (kind = "target" /\ PopulatedBlocks(cfg) = {"ssh_options"}) =>
        LET ssh == cfg.ssh_options[1]
            sent == {calls[i].body.Options.Auth :
                        i \in {j \in 1..Len(calls) : calls[j].method \in {"POST", "PUT"}}}
        IN  CASE Len(ssh.password_auth) = 1 /\ Len(ssh.public_key_auth) = 0 ->
                   sent \subseteq {[type |-> "SSHTargetPasswordAuth", Kind |-> "Password",
                                    Password |-> ssh.password_auth[1].password]}
              [] Len(ssh.password_auth) = 0 /\ Len(ssh.public_key_auth) = 1 ->
                   sent \subseteq {[type |-> "SSHTargetPublicKeyAuth", Kind |-> "PublicKey"]}
              [] OTHER ->
                   /\ calls = <<>>
                   /\ phase \notin {"created", "gone"}
                   /\ op \in {"create", "update", "ConflictsWith"} => diags # NilErr

\* C17: a block with both auth blocks was rejected before any request
C17_BothAuthRejected ==
    /\ kind = "target" /\ PopulatedBlocks(cfg) = {"ssh_options"}
    /\ Len(cfg.ssh_options[1].password_auth) = 1 /\ Len(cfg.ssh_options[1].public_key_auth) = 1
    /\ phase = "conflict" /\ diags # NilErr /\ calls = <<>>

\* a call of the client that failed: no response, a status of 400 or above
\* (but 404 to a lookup), or a body that does not decode into the result
CallFailed(c) ==
    \/ c.transport
    \/ c.status >= 400 /\ ~(c.method = "GET" /\ c.status = 404)
    \/ c.status < 400 /\ c.status # 204 /\ c.method # "DELETE" /\ c.answer.t # "json"

C20_DataSourceByID ==
    [][(kind = "target_data" /\ phase = "planned" /\ op' = "data_read"
          /\ d.id # "" /\ d.name = "" /\ Len(calls') = 1 /\ ~calls'[1].transport)
          => /\ calls'[1].path = <<"targets", d.id>>
             /\ calls'[1].status = 404
                   => diags' = [msg |-> "target with ID %s not found", id |-> d.id]
             /\ (calls'[1].status = 200 /\ calls'[1].answer.t = "json")
                   => /\ wire'.ok
                      /\ diags' = NilErr
                      /\ d'.id = wire'.val.ID /\ d'.name = wire'.val.Name
                      /\ d'.description = wire'.val.Description
                      /\ d'.allow_roles = wire'.val.AllowRoles
                      /\ PopulatedBlocks(d') = {BlockOfKind(PayloadKind(wire'.val.Options))}]_vars

\* C20: the data source was given the id "t1" alone, GetTarget answered with
\* the target "box", and the read ended in a nil dereference with nothing set
C20_ReadByIDPanics ==
    /\ kind = "target_data" /\ op = "data_read"
    /\ cfg = [id |-> "t1", name |-> ""]
    /\ Len(calls) = 1 /\ calls[1].path = <<"targets", "t1">> /\ calls[1].status = 200
    /\ wire.ok /\ wire.val # JNull /\ wire.val.ID = "t1" /\ wire.val.Name = "box"
    /\ diags = NilDereference
    /\ d.name = "" /\ PopulatedBlocks(d) = {}

\* C20: the data source was given the id "t1" alone and GetTarget was answered
\* 404
C20_ReadByIDNotFound ==
    /\ kind = "target_data" /\ op = "data_read"
    /\ cfg = [id |-> "t1", name |-> ""]
    /\ Len(calls) = 1 /\ calls[1].status = 404
    /\ diags = [msg |-> "target with ID %s not found", id |-> "t1"]


\* C25: the read of a role, a user or a target that is answered with an error
\* status other than 404, or that fails in transport, returns an error and
\* leaves the identifier and every attribute as they were; the identifier is
\* emptied by a read only on 404.
C25_OnlyNotFoundIsGone ==
    [][(kind \in {"role", "user", "target"} /\ phase = "created" /\ op' = "read")
          => /\ Len(calls') = 1
             /\ (calls'[1].transport \/ (calls'[1].status >= 400 /\ calls'[1].status # 404))
                   => (diags' # NilErr /\ d' = d)
             /\ Len(d'.id) = 0 => (~calls'[1].transport /\ calls'[1].status = 404)]_vars

\* C25: the read of the target "t1" was answered 403 and returned the error
C25_TargetReadForbidden ==
    /\ kind = "target" /\ op = "read" /\ phase = "created"
    /\ Len(calls) = 1 /\ calls[1].status = 403
    /\ diags = Wrap("failed to read target", StatusError(403, "forbidden"))
    /\ d.id = "t1" /\ d.name = "box"

\* C26: when the UpdateUser that sets the credential policy of a new user
\* fails, the create returns an error and the user it created neither remains
\* upstream nor is identified in state.
C26_UserCreateAtomic ==
    (kind = "user" /\ op = "create" /\ Len(calls) >= 2
        /\ calls[2].method = "PUT" /\ CallFailed(calls[2]))
    => /\ diags # NilErr
       /\ Len(d.id) = 0
       /\ \E i \in 3..Len(calls) : calls[i].method = "DELETE" /\ ~CallFailed(calls[i])

\* C26: the user "u1" was created, the PUT of its policy was answered 500, and
\* the create returned the error with "u1" in state and no further request
C26_UserWithoutPolicy ==
    /\ kind = "user" /\ op = "create" /\ Len(cfg.credential_policy) > 0
    /\ Len(calls) = 2 /\ calls[1].method = "POST" /\ calls[1].status = 200
    /\ calls[2].method = "PUT" /\ calls[2].path = <<"users", "u1">> /\ calls[2].status = 500
    /\ diags.msg = "failed to set credential policy"
    /\ d.id = "u1" /\ phase = "created"

(***************************************************************************)
(* SpecPolicy: the credential-policy codec on drawn policy blocks.         *)
(***************************************************************************)
MaxKinds == 2
MaxFields == 2

\* the credential_policy lists of a valid configuration: no block, or one block
\* holding up to MaxFields of the four protocol fields, each a list of up to
\* MaxKinds known kinds
PolicyBlocks ==
    LET lists == UNION {[1..n -> {"Password", "Totp"}] : n \in 0..MaxKinds}
        keySets == {keys \in SUBSET PolicyKeys : Cardinality(keys) <= MaxFields}
    IN  {<<>>} \cup {<<m>> : m \in UNION {[keys -> lists] : keys \in keySets}}

InitPolicy ==
    /\ kind = "policy_codec"
    /\ cfg \in PolicyBlocks
    /\ d = None
    /\ wire = None
    /\ upstream = None
    /\ calls = <<>>
    /\ diags = NilErr
    /\ op = "none"
    /\ phase = "config"

\* expandCredentialPolicy on the block of the configuration
PolicyExpand ==
    /\ kind = "policy_codec" /\ phase = "config"
    /\ wire' = expandCredentialPolicy(cfg)
    /\ op' = "expandCredentialPolicy"
    /\ phase' = "expanded"
    /\ UNCHANGED <<kind, cfg, d, upstream, calls, diags>>

\* flattenCredentialPolicy on what expandCredentialPolicy returned
PolicyFlatten ==
    /\ kind = "policy_codec" /\ phase = "expanded"
    /\ d' = flattenCredentialPolicy(wire)
    /\ op' = "flattenCredentialPolicy"
    /\ phase' = "flattened"
    /\ UNCHANGED <<kind, cfg, wire, upstream, calls, diags>>

NextPolicy == PolicyExpand \/ PolicyFlatten

SpecPolicy == InitPolicy /\ [][NextPolicy]_vars

\* C7: flattenCredentialPolicy(expandCredentialPolicy(p)) holds the same kinds in
\* the same order under the same protocol keys as p, fields present with an
\* empty list included.
C7_RoundTrip ==
    (kind = "policy_codec" /\ phase = "flattened") => d = cfg

\* C7, as the code has it: the result holds exactly the fields of p whose list is
\* not empty, each with the kinds of p in the order of p; a field present with an
\* empty list is dropped.
C7_RoundTripNonEmptyFields ==
    (kind = "policy_codec" /\ phase = "flattened") =>
        /\ Len(d) = Len(cfg)
        /\ \A i \in 1..Len(cfg) :
              /\ DOMAIN d[i] = {k \in DOMAIN cfg[i] : Len(cfg[i][k]) > 0}
              /\ \A k \in DOMAIN d[i] : d[i][k] = cfg[i][k]

\* C7: a block with one populated field and one field present with an empty
\* list went through the codec
C7_EmptyFieldFlattened ==
    /\ kind = "policy_codec" /\ phase = "flattened"
    /\ cfg = <<[http |-> <<"Password", "Totp">>, ssh |-> <<>>]>>
    /\ d = <<[http |-> <<"Password", "Totp">>]>>

(***************************************************************************)
(* Composite identifiers.  A string is the sequence of its characters.     *)
(***************************************************************************)
\* a split at the first separator only
SplitAtFirst(s) ==
    IF \A i \in 1..Len(s) : s[i] # ":" THEN <<s>>
    ELSE LET i == CHOOSE j \in 1..Len(s) : s[j] = ":" /\ \A k \in 1..(j - 1) : s[k] # ":"
         IN  <<SubSeq(s, 1, i - 1), SubSeq(s, i + 1, Len(s))>>

\* strings.Split(s, ":")
RECURSIVE Split(_)
Split(s) ==
    IF \A i \in 1..Len(s) : s[i] # ":" THEN <<s>>
    ELSE LET i == CHOOSE j \in 1..Len(s) : s[j] = ":" /\ \A k \in 1..(j - 1) : s[k] # ":"
         IN  <<SubSeq(s, 1, i - 1)>> \o Split(SubSeq(s, i + 1, Len(s)))

\* the two parts the other way round
parseCompositeIDSwapped(id, part1Name, part2Name) ==
    LET parts == Split(id)
    IN  IF Len(parts) # 2
        THEN [ok |-> FALSE,
              err |-> [msg |-> "expected ID in format '%s:%s', got: %s",
                       part1Name |-> part1Name, part2Name |-> part2Name, id |-> id]]
        ELSE Ok(<<parts[2], parts[1]>>)

\* parseCompositeID
parseCompositeID(id, part1Name, part2Name) ==
    LET parts == Split(id)
    IN  IF Len(parts) # 2
        THEN [ok |-> FALSE,
              err |-> [msg |-> "expected ID in format '%s:%s', got: %s",
                       part1Name |-> part1Name, part2Name |-> part2Name, id |-> id]]
        ELSE Ok(<<parts[1], parts[2]>>)

\* fmt.Sprintf("%s:%s", first, second)
CompositeID(first, second) == first \o <<":">> \o second

\* a look at the first fetched item only
FoundFirst(items, id) == items # JNull /\ Len(items.v) > 0 /\ items.v[1].ID = id

\* the loop of a read over the fetched roles or credentials: is there one whose
\* ID is `id`
Found(items, id) == items # JNull /\ \E i \in 1..Len(items.v) : items.v[i].ID = id

GetUserRoles(userID, reply) == CallForResult("GET", <<"users", userID, "roles">>, reply, "[]Role")
GetTargetRoles(targetID, reply) ==
    CallForResult("GET", <<"targets", targetID, "roles">>, reply, "[]Role")

(***************************************************************************)
(* SpecComposite: the resources addressed by "first:second": user-role,    *)
(* target-role, password credential, public-key credential, and the SSO    *)
(* credential, which is imported by such an identifier.                    *)
(***************************************************************************)
MaxCompLen == 2
MaxIdLen == 5

\* the strings of at most n characters over one letter and the separator
Strings(n) == UNION {[1..len -> {"a", ":"}] : len \in 0..n}

\* what a run starts from: a configuration to create (the component identifiers
\* are any strings), or an identifier to import
CompositeConfigs(k) ==
    {[import_id |-> id] : id \in Strings(MaxIdLen)} \cup
    CASE k = "user_role" ->
           {[user_id |-> u, role_id |-> r] : u, r \in Strings(MaxCompLen)}
      [] k = "target_role" ->
           {[target_id |-> t, role_id |-> r] : t, r \in Strings(MaxCompLen)}
      [] k = "password_credential" ->
           {[user_id |-> u, password |-> "s3cret"] : u \in Strings(MaxCompLen)}
      [] k = "public_key_credential" ->
           {[user_id |-> u, label |-> "laptop", public_key |-> "ssh-ed25519 AAAA"] :
               u \in Strings(MaxCompLen)}
      [] k = "user_sso_credential" ->
           {[user_id |-> u, sso_provider |-> "google", email |-> "alice@example.com"] :
               u \in Strings(MaxCompLen) \ {<<>>}}

\* the JSON a reply may carry: one credential, or a list of up to two roles or
\* credentials, with a few identifiers
CompositeBodies(k) ==
    LET cred(x) == [id |-> x, label |-> "laptop", openssh_public_key |-> "ssh-ed25519 AAAA",
                    date_added |-> "2024-01-01"]
        sso(x, e) == [id |-> x, provider |-> "google", email |-> e]
        items == CASE k = "[]Role" ->
                        {[id |-> x, name |-> "dev"] : x \in {<<>>, <<"a">>, <<"a", "a">>, <<"a", ":">>}}
                   [] k = "[]SsoCredential" ->
                        {sso(<<"a">>, "alice@example.com"), sso(<<"a", "a">>, "al@example.com")}
                   [] OTHER ->
                        {cred(<<"a">>), cred(<<"a", "a">>),
                         [id |-> <<"a", "a">>, label |-> "desk", openssh_public_key |-> "ssh-rsa BBBB",
                          date_added |-> "2024-01-01", last_used |-> "2024-02-02"]}
    IN  CASE k \in {"[]Role", "[]PublicKeyCredential", "[]SsoCredential"} ->
               {<<>>} \cup {<<x>> : x \in items} \cup {<<x, y>> : x, y \in items}
          [] k = "SsoCredential" ->
               {sso(x, "alice@example.com") : x \in {<<>>, <<"a">>, <<"a", ":">>}} \cup {EmptyMap}
          [] OTHER -> {cred(x) : x \in {<<>>, <<"a">>, <<"a", "a">>, <<"a", ":">>}} \cup {EmptyMap}

InitComposite ==
    /\ kind \in {"user_role", "target_role", "password_credential",
                 "public_key_credential", "user_sso_credential"}
    /\ cfg \in CompositeConfigs(kind)
    /\ d = WithConfig(ZeroState(kind), cfg)
    /\ wire = None
    /\ upstream = None
    /\ calls = <<>>
    /\ diags = NilErr
    /\ op = "none"
    /\ phase = "planned"

\* schema.ImportStatePassthroughContext: the identifier given to import, and no
\* attribute
ImportStatePassthrough ==
    /\ kind \in {"user_role", "target_role", "password_credential", "public_key_credential"}
    /\ phase = "planned" /\ "import_id" \in DOMAIN cfg
    /\ Finish("import", Done([d EXCEPT !.id = cfg.import_id], NilErr, <<>>, None))

\* resourceUserSsoCredentialImport
resourceUserSsoCredentialImport ==
    /\ kind = "user_sso_credential" /\ phase = "planned" /\ "import_id" \in DOMAIN cfg
    /\    LET dd == [d EXCEPT !.id = cfg.import_id]
              parsed == parseCompositeID(dd.id, "user_id", "credential_id")
              userID == parsed.val[1]
              credentialID == parsed.val[2]
          IN  IF ~parsed.ok
              THEN /\ d' = dd /\ diags' = parsed.err /\ phase' = "failed"
              ELSE /\ d' = [dd EXCEPT !.id = credentialID, !.user_id = userID]
                   /\ diags' = NilErr
                   /\ phase' = IF Len(credentialID) > 0 THEN "created" ELSE "failed"
    /\ op' = "import"
    /\ calls' = <<>>
    /\ wire' = None
    /\ UNCHANGED <<kind, cfg, upstream>>

\* resourceUserRoleCreate
resourceUserRoleCreate ==
    /\ kind = "user_role" /\ phase = "planned" /\ "import_id" \notin DOMAIN cfg
    /\ \E reply \in Replies({}) :
          LET userID == d.user_id
              roleID == d.role_id
              path == <<"users", userID, "roles", roleID>>
              res == CallNoResult("POST", path, reply)
              cs == <<Call("POST", path, JNull, reply)>>
          IN  Finish("create",
                 IF ~res.ok THEN Done(d, Wrap("failed to assign role to user", res.err), cs, res)
                 ELSE Done([d EXCEPT !.id = CompositeID(userID, roleID)], NilErr, cs, res))

\* resourceUserRoleRead
resourceUserRoleRead ==
    /\ kind = "user_role" /\ phase = "created"
    /\ \E reply \in Replies(CompositeBodies("[]Role")) :
          LET id == d.id
              parts == Split(id)
              userID == parts[1]
              roleID == parts[2]
              d1 == [d EXCEPT !.user_id = userID, !.role_id = roleID]
              roles == GetUserRoles(userID, reply)
              cs == <<Call("GET", <<"users", userID, "roles">>, JNull, reply)>>
          IN  Finish("read",
                 IF Len(parts) # 2
                 THEN Done(d, [msg |-> "invalid ID format: %s (expected user_id:role_id)",
                               id |-> id], <<>>, None)
                 ELSE IF ~roles.ok
                 THEN Done(d1, Wrap("failed to get user roles", roles.err), cs, roles)
                 ELSE IF ~Found(roles.val, roleID)
                 THEN Done([d1 EXCEPT !.id = <<>>], NilErr, cs, roles)
                 ELSE Done(d1, NilErr, cs, roles))

\* resourceUserRoleDelete
resourceUserRoleDelete ==
    /\ kind = "user_role" /\ phase = "created"
    /\ \E reply \in Replies({}) :
          LET path == <<"users", d.user_id, "roles", d.role_id>>
              res == CallNoResult("DELETE", path, reply)
              cs == <<Call("DELETE", path, JNull, reply)>>
          IN  Finish("delete",
                 IF ~res.ok THEN Done(d, Wrap("failed to remove role from user", res.err), cs, res)
                 ELSE Done([d EXCEPT !.id = <<>>], NilErr, cs, res))

\* resourceTargetRoleCreate
resourceTargetRoleCreate ==
    /\ kind = "target_role" /\ phase = "planned" /\ "import_id" \notin DOMAIN cfg
    /\ \E reply \in Replies({}) :
          LET targetID == d.target_id
              roleID == d.role_id
              path == <<"targets", targetID, "roles", roleID>>
              res == CallNoResult("POST", path, reply)
              cs == <<Call("POST", path, JNull, reply)>>
          IN  Finish("create",
                 IF ~res.ok THEN Done(d, Wrap("failed to assign role to target", res.err), cs, res)
                 ELSE Done([d EXCEPT !.id = CompositeID(targetID, roleID)], NilErr, cs, res))

\* resourceTargetRoleRead
resourceTargetRoleRead ==
    /\ kind = "target_role" /\ phase = "created"
    /\ \E reply \in Replies(CompositeBodies("[]Role")) :
          LET id == d.id
              parts == Split(id)
              targetID == parts[1]
              roleID == parts[2]
              d1 == [d EXCEPT !.target_id = targetID, !.role_id = roleID]
              roles == GetTargetRoles(targetID, reply)
              cs == <<Call("GET", <<"targets", targetID, "roles">>, JNull, reply)>>
          IN  Finish("read",
                 IF Len(parts) # 2
                 THEN Done(d, [msg |-> "invalid ID format: %s (expected target_id:role_id)",
                               id |-> id], <<>>, None)
                 ELSE IF ~roles.ok
                 THEN Done(d1, Wrap("failed to get target roles", roles.err), cs, roles)
                 ELSE IF ~Found(roles.val, roleID)
                 THEN Done([d1 EXCEPT !.id = <<>>], NilErr, cs, roles)
                 ELSE Done(d1, NilErr, cs, roles))

\* resourceTargetRoleDelete
resourceTargetRoleDelete ==
    /\ kind = "target_role" /\ phase = "created"
    /\ \E reply \in Replies({}) :
          LET path == <<"targets", d.target_id, "roles", d.role_id>>
              res == CallNoResult("DELETE", path, reply)
              cs == <<Call("DELETE", path, JNull, reply)>>
          IN  Finish("delete",
                 IF ~res.ok THEN Done(d, Wrap("failed to remove role from target", res.err), cs, res)
                 ELSE Done([d EXCEPT !.id = <<>>], NilErr, cs, res))

\* resourcePasswordCredentialCreate
resourcePasswordCredentialCreate ==
    /\ kind = "password_credential" /\ phase = "planned" /\ "import_id" \notin DOMAIN cfg
    /\ \E reply \in Replies(CompositeBodies("PasswordCredential")) :
          LET userID == d.user_id
              path == <<"users", userID, "credentials", "passwords">>
              cred == CallForResult("POST", path, reply, "PasswordCredential")
              cs == <<Call("POST", path, [Password |-> d.password], reply)>>
          IN  Finish("create",
                 IF ~cred.ok
                 THEN Done(d, Wrap("failed to add password credential", cred.err), cs, cred)
                 ELSE Done([d EXCEPT !.id = CompositeID(userID, cred.val.ID)], NilErr, cs, cred))

\* resourcePasswordCredentialRead: reads nothing
resourcePasswordCredentialRead ==
    /\ kind = "password_credential" /\ phase = "created"
    /\ Finish("read", Done(d, NilErr, <<>>, None))

\* resourcePasswordCredentialDelete
resourcePasswordCredentialDelete ==
    /\ kind = "password_credential" /\ phase = "created"
    /\ \E reply \in Replies({}) :
          LET parts == Split(d.id)
              userID == parts[1]
              credID == parts[2]
              path == <<"users", userID, "credentials", "passwords", credID>>
              res == CallNoResult("DELETE", path, reply)
              cs == <<Call("DELETE", path, JNull, reply)>>
          IN  Finish("delete",
                 IF Len(parts) # 2
                 THEN Done(d, [msg |-> "invalid ID format: %s (expected user_id:credential_id)",
                               id |-> d.id], <<>>, None)
                 ELSE IF ~res.ok
                 THEN Done(d, Wrap("failed to delete password credential", res.err), cs, res)
                 ELSE Done([d EXCEPT !.id = <<>>], NilErr, cs, res))

\* resourcePublicKeyCredentialRead
resourcePublicKeyCredentialRead(dd, reply) ==
    LET parts == Split(dd.id)
        userID == parts[1]
        credID == parts[2]
        creds == CallForResult("GET", <<"users", userID, "credentials", "public-keys">>, reply,
                               "[]PublicKeyCredential")
        cs == <<Call("GET", <<"users", userID, "credentials", "public-keys">>, JNull, reply)>>
        cred == creds.val.v[CHOOSE i \in 1..Len(creds.val.v) :
                               /\ creds.val.v[i].ID = credID
                               /\ \A j \in 1..(i - 1) : creds.val.v[j].ID # credID]
    IN  IF Len(parts) # 2
        THEN Done(dd, [msg |-> "invalid ID format: %s (expected user_id:credential_id)",
                       id |-> dd.id], <<>>, None)
        ELSE IF ~creds.ok
        THEN Done(dd, Wrap("failed to get public key credentials", creds.err), cs, creds)
        ELSE IF ~Found(creds.val, credID) THEN Done([dd EXCEPT !.id = <<>>], NilErr, cs, creds)
        ELSE Done([dd EXCEPT !.user_id = userID, !.label = cred.Label,
                             !.public_key = cred.OpensshPublicKey,
                             !.date_added = cred.DateAdded,
                             !.last_used = IF cred.LastUsed # "" THEN cred.LastUsed ELSE @],
                  NilErr, cs, creds)

\* resourcePublicKeyCredentialCreate
PublicKeyCredentialCreate ==
    /\ kind = "public_key_credential" /\ phase = "planned" /\ "import_id" \notin DOMAIN cfg
    /\ \E reply \in Replies(CompositeBodies("PublicKeyCredential")),
          readReply \in Replies(CompositeBodies("[]PublicKeyCredential")) :
          LET userID == d.user_id
              path == <<"users", userID, "credentials", "public-keys">>
              cred == CallForResult("POST", path, reply, "PublicKeyCredential")
              cs == <<Call("POST", path,
                           [Label |-> d.label, OpensshPublicKey |-> d.public_key], reply)>>
              read == resourcePublicKeyCredentialRead(
                          [d EXCEPT !.id = CompositeID(userID, cred.val.ID)], readReply)
          IN  Finish("create",
                 IF ~cred.ok
                 THEN Done(d, Wrap("failed to add public key credential", cred.err), cs, cred)
                 ELSE Done(read.d, read.diags, cs \o read.calls, read.ret))

\* resourcePublicKeyCredentialRead as an operation of its own
PublicKeyCredentialRead ==
    /\ kind = "public_key_credential" /\ phase = "created"
    /\ \E reply \in Replies(CompositeBodies("[]PublicKeyCredential")) :
          Finish("read", resourcePublicKeyCredentialRead(d, reply))

\* resourcePublicKeyCredentialUpdate; what UpdatePublicKeyCredential decodes is
\* discarded
PublicKeyCredentialUpdate ==
    /\ kind = "public_key_credential" /\ phase = "created"
    /\ \E reply \in Replies({EmptyMap}),
          readReply \in Replies(CompositeBodies("[]PublicKeyCredential")) :
          LET dd == WithConfig(d, cfg)
              parts == Split(dd.id)
              userID == parts[1]
              credID == parts[2]
              path == <<"users", userID, "credentials", "public-keys", credID>>
              res == CallForResult("PUT", path, reply, "PublicKeyCredential")
              cs == <<Call("PUT", path,
                           [Label |-> dd.label, OpensshPublicKey |-> dd.public_key], reply)>>
              read == resourcePublicKeyCredentialRead(dd, readReply)
          IN  Finish("update",
                 IF Len(parts) # 2
                 THEN Done(dd, [msg |-> "invalid ID format: %s (expected user_id:credential_id)",
                                id |-> dd.id], <<>>, None)
                 ELSE IF ~res.ok
                 THEN Done(dd, Wrap("failed to update public key credential", res.err), cs, res)
                 ELSE Done(read.d, read.diags, cs \o read.calls, read.ret))

\* resourcePublicKeyCredentialDelete
PublicKeyCredentialDelete ==
    /\ kind = "public_key_credential" /\ phase = "created"
    /\ \E reply \in Replies({}) :
          LET parts == Split(d.id)
              userID == parts[1]
              credID == parts[2]
              path == <<"users", userID, "credentials", "public-keys", credID>>
              res == CallNoResult("DELETE", path, reply)
              cs == <<Call("DELETE", path, JNull, reply)>>
          IN  Finish("delete",
                 IF Len(parts) # 2
                 THEN Done(d, [msg |-> "invalid ID format: %s (expected user_id:credential_id)",
                               id |-> d.id], <<>>, None)
                 ELSE IF ~res.ok
                 THEN Done(d, Wrap("failed to delete public key credential", res.err), cs, res)
                 ELSE Done([d EXCEPT !.id = <<>>], NilErr, cs, res))

\* resourceUserSsoCredentialRead
resourceUserSsoCredentialRead(dd, reply) ==
    LET userID == dd.user_id
        credentialID == dd.id
        path == <<"users", userID, "credentials", "sso">>
        credentials == CallForResult("GET", path, reply, "[]SsoCredential")
        cs == <<Call("GET", path, JNull, reply)>>
        credential ==
            credentials.val.v[CHOOSE i \in 1..Len(credentials.val.v) :
                                 /\ credentials.val.v[i].ID = credentialID
                                 /\ \A j \in 1..(i - 1) : credentials.val.v[j].ID # credentialID]
    IN  IF ~credentials.ok
        THEN Done(dd, Wrap("failed to read SSO credentials", credentials.err), cs, credentials)
        ELSE IF ~Found(credentials.val, credentialID)
        THEN Done([dd EXCEPT !.id = <<>>], NilErr, cs, credentials)
        ELSE Done([dd EXCEPT !.sso_provider = credential.Provider, !.email = credential.Email],
                  NilErr, cs, credentials)

\* resourceUserSsoCredentialCreate
UserSsoCredentialCreate ==
    /\ kind = "user_sso_credential" /\ phase = "planned" /\ "import_id" \notin DOMAIN cfg
    /\ \E userReply \in Replies({EmptyMap}),
          reply \in Replies(CompositeBodies("SsoCredential")),
          readReply \in Replies(CompositeBodies("[]SsoCredential")) :
          LET userID == d.user_id
              user == GetUser(userID, userReply)
              c1 == <<Call("GET", <<"users", userID>>, JNull, userReply)>>
              path == <<"users", userID, "credentials", "sso">>
              credential == CallForResult("POST", path, reply, "SsoCredential")
              c2 == <<Call("POST", path, [Provider |-> d.sso_provider, Email |-> d.email], reply)>>
              read == resourceUserSsoCredentialRead([d EXCEPT !.id = credential.val.ID], readReply)
          IN  Finish("create",
                 IF ~user.ok THEN Done(d, Wrap("failed to verify user exists", user.err), c1, user)
                 ELSE IF user.val = JNull
                 THEN Done(d, [msg |-> "user with ID %s not found", id |-> userID], c1, user)
                 ELSE IF ~credential.ok
                 THEN Done(d, Wrap("failed to create SSO credential", credential.err),
                           c1 \o c2, credential)
                 ELSE Done(read.d, read.diags, c1 \o c2 \o read.calls, read.ret))

\* resourceUserSsoCredentialRead as an operation of its own
UserSsoCredentialRead ==
    /\ kind = "user_sso_credential" /\ phase = "created"
    /\ \E reply \in Replies(CompositeBodies("[]SsoCredential")) :
          Finish("read", resourceUserSsoCredentialRead(d, reply))

\* resourceUserSsoCredentialUpdate; what UpdateSsoCredential decodes is discarded
UserSsoCredentialUpdate ==
    /\ kind = "user_sso_credential" /\ phase = "created"
    /\ \E reply \in Replies({EmptyMap}),
          readReply \in Replies(CompositeBodies("[]SsoCredential")) :
          LET dd == WithConfig(d, cfg)
              path == <<"users", dd.user_id, "credentials", "sso", dd.id>>
              res == CallForResult("PUT", path, reply, "SsoCredential")
              cs == <<Call("PUT", path, [Provider |-> dd.sso_provider, Email |-> dd.email], reply)>>
              read == resourceUserSsoCredentialRead(dd, readReply)
          IN  Finish("update",
                 IF ~res.ok THEN Done(dd, Wrap("failed to update SSO credential", res.err), cs, res)
                 ELSE Done(read.d, read.diags, cs \o read.calls, read.ret))

\* resourceUserSsoCredentialDelete
UserSsoCredentialDelete ==
    /\ kind = "user_sso_credential" /\ phase = "created"
    /\ \E reply \in Replies({}) :
          LET path == <<"users", d.user_id, "credentials", "sso", d.id>>
              res == CallNoResult("DELETE", path, reply)
              cs == <<Call("DELETE", path, JNull, reply)>>
          IN  Finish("delete",
                 IF ~res.ok THEN Done(d, Wrap("failed to delete SSO credential", res.err), cs, res)
                 ELSE Done([d EXCEPT !.id = <<>>], NilErr, cs, res))

NextComposite ==
    \/ ImportStatePassthrough \/ resourceUserSsoCredentialImport
    \/ UserSsoCredentialCreate \/ UserSsoCredentialRead
    \/ UserSsoCredentialUpdate \/ UserSsoCredentialDelete
    \/ resourceUserRoleCreate \/ resourceUserRoleRead \/ resourceUserRoleDelete
    \/ resourceTargetRoleCreate \/ resourceTargetRoleRead \/ resourceTargetRoleDelete
    \/ resourcePasswordCredentialCreate \/ resourcePasswordCredentialRead
    \/ resourcePasswordCredentialDelete
    \/ PublicKeyCredentialCreate \/ PublicKeyCredentialRead
    \/ PublicKeyCredentialUpdate \/ PublicKeyCredentialDelete

SpecComposite == InitComposite /\ [][NextComposite]_vars

(***************************************************************************)
(* Properties of SpecComposite.                                            *)
(***************************************************************************)
Colons(s) == Cardinality({i \in 1..Len(s) : s[i] = ":"})
Segments == {s \in Strings(MaxIdLen) : Colons(s) = 0}
JoinKinds == {"user_role", "target_role"}

\* the identifier a step decodes, and the steps that decode one: the import of
\* an SSO credential (parseCompositeID), the read of a user-role or target-role,
\* the delete of a password credential, and the read, update and delete of a
\* public-key credential
DecodedID == IF kind = "user_sso_credential" THEN cfg.import_id ELSE d.id
DecodeStep ==
    \/ kind = "user_sso_credential" /\ phase = "planned" /\ op' = "import"
    \/ /\ phase = "created"
       /\ \/ kind \in JoinKinds /\ op' = "read"
          \/ kind = "password_credential" /\ op' = "delete"
          \/ kind = "public_key_credential" /\ op' \in {"read", "update", "delete"}

\* the step failed with the format error of its resource, naming the expected
\* pattern and the identifier, before any request
FormatErrorReturned ==
    /\ calls' = <<>>
    /\ diags' =
         CASE kind = "user_sso_credential" ->
                [msg |-> "expected ID in format '%s:%s', got: %s", part1Name |-> "user_id",
                 part2Name |-> "credential_id", id |-> DecodedID]
           [] kind = "user_role" ->
                [msg |-> "invalid ID format: %s (expected user_id:role_id)", id |-> DecodedID]
           [] kind = "target_role" ->
                [msg |-> "invalid ID format: %s (expected target_id:role_id)", id |-> DecodedID]
           [] OTHER ->
                [msg |-> "invalid ID format: %s (expected user_id:credential_id)",
                 id |-> DecodedID]

\* the step went on with the pair (a, b): the attributes it set and the path of
\* the request it made hold a and b
PairDecoded(a, b) ==
    CASE kind = "user_sso_credential" ->
           diags' = NilErr /\ d'.user_id = a /\ d'.id = b
      [] kind = "user_role" ->
           /\ d'.user_id = a /\ d'.role_id = b
           /\ Len(calls') = 1 /\ calls'[1].path = <<"users", a, "roles">>
      [] kind = "target_role" ->
           /\ d'.target_id = a /\ d'.role_id = b
           /\ Len(calls') = 1 /\ calls'[1].path = <<"targets", a, "roles">>
      [] kind = "password_credential" ->
           calls'[1].path = <<"users", a, "credentials", "passwords", b>>
      [] kind = "public_key_credential" ->
           calls'[1].path = IF op' = "read"
                            THEN <<"users", a, "credentials", "public-keys">>
                            ELSE <<"users", a, "credentials", "public-keys", b>>

\* C3: decoding a composite identifier yields the pair (a, b) for "a:b" and
\* fails with a format error naming the expected pattern for an identifier
\* with no colon, with more than one colon, and for the empty string, in
\* parseCompositeID and in the inline decodings alike.
C3_CompositeDecode ==
    [][DecodeStep =>
          IF Colons(DecodedID) = 1
          THEN \A a, b \in Segments : DecodedID = a \o <<":">> \o b => PairDecoded(a, b)
          ELSE FormatErrorReturned]_vars

\* C3: the read of a user-role imported as "a:a:a" failed on the format
C3_ThreeSegmentsRefused ==
    /\ kind = "user_role" /\ op = "read"
    /\ d.id = <<"a", ":", "a", ":", "a">>
    /\ diags = [msg |-> "invalid ID format: %s (expected user_id:role_id)", id |-> d.id]

\* C4: an identifier with an empty first or second segment (":b", "a:", ":")
\* fails with a format error and is never decoded into a pair.
C4_EmptySegmentRefused ==
    [][(DecodeStep /\ Colons(DecodedID) = 1
          /\ (DecodedID[1] = ":" \/ DecodedID[Len(DecodedID)] = ":"))
          => FormatErrorReturned]_vars

\* C4: the read of a user-role imported as ":a" went on with an empty user ID
C4_EmptySegmentDecoded ==
    /\ kind = "user_role" /\ op = "read"
    /\ "import_id" \in DOMAIN cfg /\ cfg.import_id = <<":", "a">>
    /\ d.user_id = <<>> /\ d.role_id = <<"a">>
    /\ Len(calls) = 1 /\ calls[1].path = <<"users", <<>>, "roles">>

\* C5: the identifier a create writes splits on ':' into exactly two segments,
\* the component identifiers it was built from, whatever they contain.
C5_CreatedIDSplits ==
    (kind \in JoinKinds \cup {"password_credential", "public_key_credential"}
        /\ op = "create" /\ Len(d.id) > 0)
    => LET first == IF kind = "target_role" THEN cfg.target_id ELSE cfg.user_id
       IN  /\ Colons(d.id) = 1
           /\ \E b \in Segments :
                 /\ d.id = first \o <<":">> \o b
                 /\ kind \in JoinKinds => b = cfg.role_id

\* C5: a user-role was created for the user "a:" and the role "a"
C5_ColonInComponent ==
    /\ kind = "user_role" /\ op = "create" /\ diags = NilErr
    /\ cfg = [user_id |-> <<"a", ":">>, role_id |-> <<"a">>]
    /\ d.id = <<"a", ":", ":", "a">>

\* C9: when the role list of the owning user or target is answered 404, the read
\* of a user-role or target-role empties the identifier and returns no error.
C9_OwnerGoneClearsID ==
    [][(kind \in JoinKinds /\ phase = "created" /\ op' = "read"
          /\ Len(calls') = 1 /\ calls'[1].status = 404)
          => (Len(d'.id) = 0 /\ diags' = NilErr)]_vars

\* C9: the read of a user-role was answered 404 and returned an error, the
\* identifier still in state
C9_OwnerGoneIsError ==
    /\ kind = "user_role" /\ op = "read"
    /\ Len(calls) = 1 /\ calls[1].status = 404
    /\ diags # NilErr /\ Len(d.id) > 0

\* the role IDs of a fetched role list
FetchedRoleIDs(roles) == IF roles = JNull THEN {} ELSE {roles.v[i].ID : i \in 1..Len(roles.v)}

\* C10: a successful read of the user-role or target-role "e:r" empties the
\* identifier iff the role list fetched for e holds no role whose ID is r; when
\* r is in the list the identifier is unchanged and the owner and role_id
\* attributes are e and r.
C10_ReadReconciles ==
    [][(kind \in JoinKinds /\ phase = "created" /\ op' = "read" /\ diags' = NilErr)
          => /\ Colons(d.id) = 1
             /\ \A e, r \in Segments :
                   d.id = e \o <<":">> \o r =>
                      /\ calls'[1].path =
                            <<IF kind = "user_role" THEN "users" ELSE "targets", e, "roles">>
                      /\ wire'.ok
                      /\ Len(d'.id) = 0 <=> r \notin FetchedRoleIDs(wire'.val)
                      /\ r \in FetchedRoleIDs(wire'.val) =>
                            /\ d'.id = d.id
                            /\ d'.role_id = r
                            /\ IF kind = "user_role" THEN d'.user_id = e ELSE d'.target_id = e]_vars

\* C10: a read of the target-role "a:aa" found the role second in the list
C10_RoleFoundSecond ==
    /\ kind = "target_role" /\ op = "read" /\ diags = NilErr
    /\ d.id = <<"a", ":", "a", "a">> /\ d.target_id = <<"a">> /\ d.role_id = <<"a", "a">>
    /\ wire.ok /\ wire.val # JNull /\ Len(wire.val.v) = 2
    /\ wire.val.v[1].ID = <<"a">> /\ wire.val.v[2].ID = <<"a", "a">>

CredentialKinds == {"password_credential", "public_key_credential", "user_sso_credential"}

\* the credential ID the server answered the POST of a create with
AnsweredID(c) == Field(c.answer.v, "id", <<>>)
CreatedCredential(c) == c.method = "POST" /\ ~c.transport /\ c.answer.t = "json"

\* C18: after a successful create of a password, public-key or SSO credential
\* for the user u that the server answered with the credential ID c, the
\* identifier in state is "u:c".
C18_CreatedIDIsComposite ==
    (kind \in CredentialKinds /\ op = "create" /\ diags = NilErr /\ Len(d.id) > 0)
    => \A i \in 1..Len(calls) :
          CreatedCredential(calls[i])
          => d.id = cfg.user_id \o <<":">> \o AnsweredID(calls[i])

\* C18: an SSO credential was created for the user "aa", answered with the
\* credential ID "a", and the identifier in state is "a"
C18_SsoCreatedPlainID ==
    /\ kind = "user_sso_credential" /\ op = "create" /\ diags = NilErr
    /\ cfg.user_id = <<"a", "a">>
    /\ Len(calls) = 3 /\ CreatedCredential(calls[2]) /\ AnsweredID(calls[2]) = <<"a">>
    /\ d.id = <<"a">> /\ d.user_id = <<"a", "a">>

\* C19: the import of an SSO credential by "u:c" sets the identifier to c and
\* user_id to u, and the read that follows fetches the SSO credentials of u
\* and keeps the identifier when c is among them; an import identifier that
\* is not two segments around one colon fails with an error, the identifier
\* and user_id left as they were.
C19_SsoImportThenRead ==
    [][/\ (kind = "user_sso_credential" /\ phase = "planned" /\ op' = "import")
          => IF Colons(cfg.import_id) = 1
             THEN \A u, c \in Segments :
                     cfg.import_id = u \o <<":">> \o c
                        => (diags' = NilErr /\ calls' = <<>> /\ d'.id = c /\ d'.user_id = u)
             ELSE /\ diags' # NilErr /\ calls' = <<>>
                  /\ d'.id = cfg.import_id /\ d'.user_id = d.user_id
       /\ (kind = "user_sso_credential" /\ op = "import" /\ phase = "created" /\ op' = "read")
          => /\ Len(calls') = 1 /\ calls'[1].method = "GET"
             /\ calls'[1].path = <<"users", d.user_id, "credentials", "sso">>
             /\ (wire'.ok /\ d.id \in FetchedRoleIDs(wire'.val))
                   => (diags' = NilErr /\ d'.id = d.id /\ d'.user_id = d.user_id)
             /\ (wire'.ok /\ d.id \notin FetchedRoleIDs(wire'.val)) => Len(d'.id) = 0]_vars

\* C19: the SSO credential imported as "a:aa" was read and found second among
\* the SSO credentials of the user "a"
C19_ImportedFoundSecond ==
    /\ kind = "user_sso_credential" /\ op = "read" /\ diags = NilErr
    /\ "import_id" \in DOMAIN cfg /\ cfg.import_id = <<"a", ":", "a", "a">>
    /\ d.id = <<"a", "a">> /\ d.user_id = <<"a">> /\ d.email = "al@example.com"
    /\ calls[1].path = <<"users", <<"a">>, "credentials", "sso">>
    /\ wire.ok /\ Len(wire.val.v) = 2 /\ wire.val.v[2].ID = <<"a", "a">>

\* C19: the import by "a" failed on the format and left the identifier
C19_ImportRefused ==
    /\ kind = "user_sso_credential" /\ op = "import" /\ diags # NilErr
    /\ cfg.import_id = <<"a">> /\ d.id = <<"a">> /\ d.user_id = <<>>


\* C28: the create of an SSO credential first looks the user up; the POST of
\* the credential is sent only after GetUser returned a user for the same
\* user_id, and when the lookup is answered 404 or fails the create returns
\* an error, sends no credential request and leaves the identifier empty.
C28_UserLookedUpFirst ==
    (kind = "user_sso_credential" /\ op = "create") =>
        /\ Len(calls) >= 1
        /\ calls[1].method = "GET" /\ calls[1].path = <<"users", cfg.user_id>>
        /\ \A i \in 1..Len(calls) :
              calls[i].method = "POST" =>
                 /\ i = 2
                 /\ calls[i].path = <<"users", cfg.user_id, "credentials", "sso">>
                 /\ ~CallFailed(calls[1]) /\ calls[1].status # 404
        /\ (CallFailed(calls[1]) \/ calls[1].status = 404)
              => (diags # NilErr /\ Len(calls) = 1 /\ d.id = <<>>)

\* C28: the lookup of the user "a" was answered 404 and the create stopped
C28_UserNotFound ==
    /\ kind = "user_sso_credential" /\ op = "create" /\ cfg.user_id = <<"a">>
    /\ Len(calls) = 1 /\ calls[1].status = 404
    /\ diags = [msg |-> "user with ID %s not found", id |-> <<"a">>]
    /\ d.id = <<>>

(***************************************************************************)
(* SpecResources: every resource and data source of the provider, one      *)
(* instance through its operations.                                        *)
(***************************************************************************)
InitResources == InitEntity \/ InitComposite
NextResources == NextEntity \/ NextComposite
SpecResources == InitResources /\ [][NextResources]_vars

C29_CreatedHasID ==
    (kind \in {"role", "user", "target", "ticket"} \cup CredentialKinds
        /\ op = "create" /\ diags = NilErr)
    => Len(d.id) > 0

\* C29: CreateRole was answered 204 and the create returned no error with an
\* empty identifier
C29_RoleCreatedWithoutID ==
    /\ kind = "role" /\ op = "create" /\ diags = NilErr
    /\ Len(calls) = 1 /\ calls[1].method = "POST" /\ calls[1].status = 204
    /\ d.id = "" /\ d.name = "dev"

\* a delete of a resource in state that sent its request
DeleteStep == phase = "created" /\ op' = "delete" /\ Len(calls') = 1

\* C30: for every resource kind, a delete whose call succeeds ends with the
\* identifier emptied by the delete function, and a delete whose call fails
\* returns an error and leaves the identifier and every attribute unchanged.
C30_DeleteClearsID ==
    [][DeleteStep => IF wire'.ok THEN (diags' = NilErr /\ Len(d'.id) = 0)
                     ELSE (diags' # NilErr /\ d' = d)]_vars

\* C30, with the ticket apart: its delete function returns no error and leaves
\* the identifier, the resource being removed from state by the runtime; every
\* other delete function empties the identifier itself.
C30_DeleteClearsIDButTicket ==
    [][DeleteStep => IF wire'.ok
                     THEN /\ diags' = NilErr /\ phase' = "gone"
                          /\ IF kind = "ticket" THEN d' = d
                             ELSE d' = [d EXCEPT !.id = IF kind \in {"role", "user", "target"}
                                                        THEN "" ELSE <<>>]
                     ELSE (diags' # NilErr /\ d' = d /\ phase' = "created")]_vars

\* C30: the delete of the ticket "k1" was answered 204 and the identifier is
\* still "k1"
C30_TicketDeletedKeepsID ==
    /\ kind = "ticket" /\ op = "delete" /\ diags = NilErr /\ phase = "gone"
    /\ Len(calls) = 1 /\ calls[1].method = "DELETE" /\ calls[1].status = 204
    /\ calls[1].path = <<"tickets", "k1">> /\ d.id = "k1"

(***************************************************************************)
(* SpecClient: the provider is configured, then one method of the API      *)
(* client is called and answered by a drawn reply.                         *)
(***************************************************************************)
\* the path of the admin API
APIPath == <<"@warpgate", "admin", "api">>

\* the timeout of the HTTP client when the configuration gives none, in seconds
defaultTimeout == 30

\* A host is the text before its path (scheme and authority) and the segments
\* of its path.  ":bad" stands for text that url.Parse rejects; a host without
\* a scheme parses, and no request to it can be sent.
Hosts == {[origin |-> o, path |-> p] : o \in {"", ":bad", "https://wg.example.com"},
                                      p \in {<<>>, APIPath}}

\* NewClient that hands the configured timeout to the HTTP client as it is
NewClientNoDefault(c) ==
    IF c.Host.origin = "" /\ c.Host.path = <<>> THEN Err("host cannot be empty")
    ELSE IF c.Host.origin = ":bad"
    THEN [ok |-> FALSE, err |-> Wrap("invalid host URL", Error("missing protocol scheme"))]
    ELSE Ok([baseURL |-> c.Host, token |-> c.Token, timeout |-> c.Timeout])

\* NewClient: the base URL parsed from the host, the token, and the timeout of
\* the HTTP client
NewClient(c) ==
    IF c.Host.origin = "" /\ c.Host.path = <<>> THEN Err("host cannot be empty")
    ELSE IF c.Host.origin = ":bad"
    THEN [ok |-> FALSE, err |-> Wrap("invalid host URL", Error("missing protocol scheme"))]
    ELSE Ok([baseURL |-> c.Host, token |-> c.Token,
             timeout |-> IF c.Timeout > 0 THEN c.Timeout ELSE defaultTimeout])

\* what configure returns for the client NewClient made
Configured(nc) ==
    IF ~nc.ok THEN [ok |-> FALSE, err |-> Wrap("error creating client", nc.err)] ELSE nc

\* configure: the API path is appended to a host that does not contain it, and
\* the client is made with no timeout given
configure(c) ==
    LET host == IF c.host.path = APIPath THEN c.host
                ELSE [c.host EXCEPT !.path = @ \o APIPath]
    IN  Configured(NewClient([Host |-> host, Token |-> c.token, Timeout |-> 0]))

\* the replies a client can get: a base URL without a scheme fails in the
\* transport
Sendable(client, reply) == client.baseURL.origin = "" => reply.transport

\* the replies to a call of the client about entity e.  net/http hands over any
\* final status, also 101 and a 3xx without a redirect to follow.
ClientReplies(e) ==
    Replies(Bodies(CASE e = "Role" -> "role" [] e = "User" -> "user" [] OTHER -> "target"))
    \cup {[transport |-> FALSE, status |-> s, body |-> [t |-> "text", v |-> b]] :
             s \in {101, 200, 204, 304, 401, 404, 500}, b \in {"", "invalid token"}}

\* the path of the methods about one entity, and about all of them
ClientPath(e, one) ==
    CASE e = "Role" -> IF one THEN <<"role", "r1">> ELSE <<"roles">>
      [] e = "User" -> IF one THEN <<"users", "u1">> ELSE <<"users">>
      [] OTHER -> IF one THEN <<"targets", "t1">> ELSE <<"targets">>

InitClient ==
    /\ kind = "client"
    /\ cfg \in {[host |-> h, token |-> t] : h \in Hosts, t \in {"", "secret"}}
    /\ d = None
    /\ wire = None
    /\ upstream = None
    /\ calls = <<>>
    /\ diags = NilErr
    /\ op = "none"
    /\ phase = "config"

\* the provider's ConfigureContextFunc
ClientConfigure ==
    /\ kind = "client" /\ phase = "config"
    /\ d' = configure(cfg)
    /\ diags' = d'.err
    /\ op' = "configure"
    /\ phase' = IF d'.ok THEN "ready" ELSE "failed"
    /\ UNCHANGED <<kind, cfg, wire, upstream, calls>>

\* what a method of the client leaves: the request it sent, the reply, the
\* entity and the error it returned
Called(name, method, path, body, reply, entity, res) ==
    /\ op' = name
    /\ wire' = [request |-> Request(d.val.token, method, path, body), entity |-> entity,
                result |-> IF res.ok THEN res.val ELSE JNull]
    /\ upstream' = reply
    /\ calls' = <<Call(method, path, body, reply)>>
    /\ diags' = res.err
    /\ phase' = "called"
    /\ UNCHANGED <<kind, cfg, d>>

\* GetRole, GetUser, GetTarget
ClientGetByID ==
    /\ kind = "client" /\ phase = "ready"
    /\ \E e \in {"Role", "User", "Target"} : \E reply \in ClientReplies(e) :
          /\ Sendable(d.val, reply)
          /\ Called("GetByID", "GET", ClientPath(e, TRUE), JNull, reply, e,
                 GetByID(ClientPath(e, TRUE), reply, e))

\* CreateRole, UpdateRole, CreateUser, UpdateUser, CreateTarget, UpdateTarget
ClientCallForResult ==
    /\ kind = "client" /\ phase = "ready"
    /\ \E e \in {"Role", "User", "Target"} : \E reply \in ClientReplies(e) :
       \E one \in BOOLEAN :
          LET method == IF one THEN "PUT" ELSE "POST"
          IN  /\ Sendable(d.val, reply)
              /\ Called("CallForResult", method, ClientPath(e, one), [Name |-> "x"], reply, e,
                        CallForResult(method, ClientPath(e, one), reply, e))

\* DeleteRole, DeleteUser, DeleteTarget
ClientCallNoResult ==
    /\ kind = "client" /\ phase = "ready"
    /\ \E e \in {"Role", "User", "Target"} : \E reply \in ClientReplies(e) :
          /\ Sendable(d.val, reply)
          /\ Called("CallNoResult", "DELETE", ClientPath(e, TRUE), JNull, reply, "nil",
                 CallNoResult("DELETE", ClientPath(e, TRUE), reply))

\* handleResponse on a response, with a result of every type and with none
ClientHandleResponse ==
    /\ kind = "client" /\ phase = "ready"
    /\ \E e \in {"Role", "User", "Target"} : \E reply \in ClientReplies(e) :
       \E entity \in {e, "nil"} :
          /\ ~reply.transport
          /\ LET res == handleResponse(reply, entity)
             IN  /\ wire' = [request |-> None, entity |-> entity, result |-> res.val]
                 /\ diags' = res.err
          /\ upstream' = reply
          /\ op' = "handleResponse"
          /\ phase' = "called"
          /\ UNCHANGED <<kind, cfg, d, calls>>

\* the search terms of a list
Searches == {"", "dev"}

\* the path GetUsers, GetRoles or GetTargets hands to doRequest
ListPath(e, search) ==
    CASE e = "[]User" -> GetUsersPath(search)
      [] e = "[]Role" -> GetListPath("roles", search)
      [] OTHER -> GetListPath("targets", search)

\* what a list leaves: the search term, the URL of the request it sent, the
\* reply, and the slice and the error it returned
Listed(e, search, p, reply, res) ==
    /\ op' = "List"
    /\ wire' = [request |-> Request(d.val.token, "GET", p.path, JNull),
                search |-> search, url |-> RequestURL(p), entity |-> e,
                result |-> IF res.ok THEN res.val ELSE JNull]
    /\ upstream' = reply
    /\ calls' = <<Call("GET", p.path, JNull, reply)>>
    /\ diags' = res.err
    /\ phase' = "called"
    /\ UNCHANGED <<kind, cfg, d>>

\* GetUsers, GetRoles, GetTargets
ClientList ==
    /\ kind = "client" /\ phase = "ready"
    /\ \E e \in {"[]Role", "[]User", "[]Target"} : \E search \in Searches :
       \E reply \in Replies({<<>>}) :
          /\ Sendable(d.val, reply)
          /\ Listed(e, search, ListPath(e, search), reply,
                    CallForResult("GET", ListPath(e, search).path, reply, e))

NextClient ==
    \/ ClientConfigure \/ ClientGetByID \/ ClientCallForResult
    \/ ClientCallNoResult \/ ClientHandleResponse \/ ClientList

SpecClient == InitClient /\ [][NextClient]_vars

(***************************************************************************)
(* Properties of SpecClient.                                               *)
(***************************************************************************)
\* a response reached the client in the step that led here
Answered == kind = "client" /\ op \notin {"none", "configure"} /\ ~upstream.transport

\* C11: for a response with status 400 or above and body text b, handleResponse
\* returns an error that carries the status code and b as they came, and the
\* result object is as the caller passed it; the methods of the client return
\* that error as it is.
C11_StatusAndBodyInError ==
    (Answered /\ upstream.status >= 400 /\ ~(op = "GetByID" /\ upstream.status = 404)) =>
        /\ diags.msg = "API request failed with status %d: %s"
        /\ diags.status = upstream.status
        /\ diags.body = upstream.body.v
        /\ op = "handleResponse" => wire.result = Zero(wire.entity)

\* C11: handleResponse was given 401 "invalid token" and a User to decode into
C11_InvalidToken ==
    /\ Answered /\ op = "handleResponse" /\ wire.entity = "User"
    /\ upstream.status = 401 /\ upstream.body.v = "invalid token"
    /\ diags.body = "invalid token"

\* C12: every response whose status is outside 200..299 (1xx and 3xx included)
\* is turned into an error by the client.
C12_NonSuccessIsError ==
    (Answered /\ upstream.status \notin 200..299) => diags # NilErr

\* C12: DELETE answered 304 and the client returned no error
C12_NotModifiedIsSuccess ==
    /\ Answered /\ op = "CallNoResult" /\ upstream.status = 304 /\ diags = NilErr

\* C14: every request the client sends carries X-Warpgate-Token with the
\* configured token when that token is not empty, and no such header when it is.
C14_TokenHeader ==
    (kind = "client" /\ op \in {"GetByID", "CallForResult", "CallNoResult"}) =>
        IF cfg.token # ""
        THEN /\ "X-Warpgate-Token" \in DOMAIN wire.request.header
             /\ wire.request.header["X-Warpgate-Token"] = cfg.token
        ELSE "X-Warpgate-Token" \notin DOMAIN wire.request.header

\* C14: a DELETE was sent by a client configured with a token
C14_DeleteWithToken ==
    /\ kind = "client" /\ op = "CallNoResult" /\ cfg.token = "secret"
    /\ wire.request.method = "DELETE"
    /\ wire.request.header["X-Warpgate-Token"] = "secret"

\* C24: for a status below 400 handleResponse decodes the body exactly when
\* a result is given and the status is not 204; a body that does not decode is
\* an error; otherwise (204, or no result) it returns no error and the result
\* is as the caller passed it, at its zero value.
C24_DecodeIffResultAndNot204 ==
    (Answered /\ op = "handleResponse" /\ upstream.status < 400) =>
        IF wire.entity # "nil" /\ upstream.status # 204
        THEN IF upstream.body.t = "json"
             THEN diags = NilErr /\ wire.result = Decode(wire.entity, upstream.body.v)
             ELSE diags # NilErr /\ diags.msg = "failed to decode response"
        ELSE diags = NilErr /\ wire.result = Zero(wire.entity)

\* C24: handleResponse was given a 204 and a User to decode into
C24_NoContentLeavesZero ==
    /\ Answered /\ op = "handleResponse" /\ wire.entity = "User"
    /\ upstream.status = 204 /\ diags = NilErr /\ wire.result = Zero("User")

\* C27: for a search term s that is not empty, GetUsers, GetRoles and
\* GetTargets send a GET whose path is the path of the collection and whose
\* query carries search=s.
C27_SearchInQuery ==
    (kind = "client" /\ op = "List" /\ wire.search # "") =>
        /\ wire.request.method = "GET"
        /\ wire.url.path = <<CASE wire.entity = "[]User" -> "users"
                               [] wire.entity = "[]Role" -> "roles"
                               [] OTHER -> "targets">>
        /\ wire.url.tail = <<>>
        /\ wire.url.query = << <<"search", wire.search>> >>

\* C27: GetRoles was called with the search term "dev" and the request went out
\* without a query
C27_RolesSearchDropped ==
    /\ kind = "client" /\ op = "List" /\ wire.entity = "[]Role" /\ wire.search = "dev"
    /\ wire.url = [path |-> <<"roles">>, tail |-> <<>>, query |-> <<>>]
    /\ upstream.status = 200 /\ diags = NilErr

(***************************************************************************)
(* SpecOperation: one operation of a resource or data source, request by   *)
(* request.  The operation makes its requests one after the other through  *)
(* doRequest; each request is sent with the operation's context and waits  *)
(* in httpClient.Do, while the clock of the HTTP client runs, for the       *)
(* response, the client's timeout or the cancellation of the context.      *)
(*   cfg       the number of requests the operation makes when none fails  *)
(*   d         the client configure made                                   *)
(*   wire      the request in flight: the seconds it has waited            *)
(*   upstream  the operation's context: "live" or "cancelled"              *)
(*   calls     how each request ended                                      *)
(***************************************************************************)
\* the most requests one operation makes (resourceUserCreate with a credential
\* policy: CreateUser, UpdateUser, GetUser)
MaxCalls == 3

InitOperation ==
    /\ kind = "operation"
    /\ cfg \in {[requests |-> n] : n \in 0..MaxCalls}
    /\ d = configure([host |-> [origin |-> "https://wg.example.com", path |-> <<>>],
                      token |-> "secret"]).val
    /\ wire = None
    /\ upstream = "live"
    /\ calls = <<>>
    /\ diags = NilErr
    /\ op = "none"
    /\ phase = "running"

\* the operation returns its request's error
Failed(name, outcome, err) ==
    /\ op' = name
    /\ calls' = Append(calls, outcome)
    /\ wire' = None
    /\ diags' = err
    /\ phase' = "failed"
    /\ UNCHANGED <<kind, cfg, d, upstream>>

\* doRequest up to httpClient.Do: the next request is sent.  With a context
\* already cancelled Do returns the context's error at once.
OperationSend ==
    /\ kind = "operation" /\ phase = "running" /\ Len(calls) < cfg.requests
    /\ IF upstream = "cancelled"
       THEN Failed("send", "cancelled", Wrap("request failed", Error("context canceled")))
       ELSE /\ op' = "send"
            /\ wire' = [elapsed |-> 0]
            /\ phase' = "waiting"
            /\ UNCHANGED <<kind, cfg, d, upstream, calls, diags>>

\* a second passes while the request waits; a client whose Timeout is zero has
\* no timer
OperationTick ==
    /\ kind = "operation" /\ phase = "waiting"
    /\ d.timeout > 0 /\ wire.elapsed < d.timeout
    /\ op' = "tick"
    /\ wire' = [elapsed |-> wire.elapsed + 1]
    /\ UNCHANGED <<kind, cfg, d, upstream, calls, diags, phase>>

\* the timer of the HTTP client fires: Do returns an error
OperationTimeout ==
    /\ kind = "operation" /\ phase = "waiting"
    /\ d.timeout > 0 /\ wire.elapsed = d.timeout
    /\ Failed("timeout", "timeout", Wrap("request failed", Error("Client.Timeout exceeded")))

\* the response arrives before the timer fires; a status of 400 or above is the
\* error of handleResponse, and the operation returns it
OperationRespond ==
    /\ kind = "operation" /\ phase = "waiting"
    /\ d.timeout > 0 => wire.elapsed < d.timeout
    /\ \E status \in {200, 500} :
          IF status >= 400
          THEN Failed("respond", "response", StatusError(status, ""))
          ELSE /\ op' = "respond"
               /\ calls' = Append(calls, "response")
               /\ wire' = None
               /\ phase' = "running"
               /\ UNCHANGED <<kind, cfg, d, upstream, diags>>

\* the runtime cancels the operation's context
OperationCancel ==
    /\ kind = "operation" /\ phase \in {"running", "waiting"} /\ upstream = "live"
    /\ op' = "cancel"
    /\ upstream' = "cancelled"
    /\ UNCHANGED <<kind, cfg, d, wire, calls, diags, phase>>

\* Do returns the context's error for the request in flight
OperationAbort ==
    /\ kind = "operation" /\ phase = "waiting" /\ upstream = "cancelled"
    /\ Failed("abort", "cancelled", Wrap("request failed", Error("context canceled")))

\* every request was answered: the operation returns without error
OperationReturn ==
    /\ kind = "operation" /\ phase = "running" /\ Len(calls) = cfg.requests
    /\ op' = "return"
    /\ phase' = "done"
    /\ UNCHANGED <<kind, cfg, d, wire, upstream, calls, diags>>

NextOperation ==
    \/ OperationSend \/ OperationTick \/ OperationTimeout \/ OperationRespond
    \/ OperationCancel \/ OperationAbort \/ OperationReturn

SpecOperation == InitOperation /\ [][NextOperation]_vars

\* The provider's own steps are taken (it runs), the clock of the HTTP client
\* runs and its timer fires, and Do returns when the context is done.  Nothing
\* is assumed of the server or of the runtime: a response may never arrive and
\* the context may never be cancelled.
SpecOperationFair ==
    /\ SpecOperation
    /\ WF_vars(OperationSend) /\ WF_vars(OperationReturn)
    /\ WF_vars(OperationTick) /\ WF_vars(OperationTimeout)
    /\ WF_vars(OperationAbort)

(***************************************************************************)
(* Properties of SpecOperationFair.                                        *)
(***************************************************************************)
\* C22: every operation terminates: it makes a bounded number of requests,
\* each request ends in a response, the client's timeout or the cancellation
\* of the context, and the operation then returns success or an error.
C22_OperationTerminates ==
    /\ [](Len(calls) <= MaxCalls)
    /\ [](phase = "waiting" => wire.elapsed <= defaultTimeout)
    /\ <>(phase \in {"done", "failed"} /\ wire = None)

\* C22: the first request was answered and the second ended, unanswered, when
\* the default timeout had passed
C22_SecondRequestTimedOut ==
    /\ kind = "operation" /\ phase = "failed" /\ op = "timeout"
    /\ calls = <<"response", "timeout">> /\ d.timeout = defaultTimeout
    /\ diags = Wrap("request failed", Error("Client.Timeout exceeded"))

(***************************************************************************)
(* SpecConcurrent: the updates of two role resources run at the same time  *)
(* through the one client of the provider, interleaved request by request. *)
(*   cfg       the state each instance starts from                         *)
(*   upstream  the replies to the two requests of each instance            *)
(*   d, calls, diags, phase   one entry per instance                       *)
(*   wire      the client, and the URLs each instance requested            *)
(***************************************************************************)
\* the roles of the two instances
ConcurrentRoles ==
    <<[id |-> "r1", name |-> "dev", description |-> "developers"],
      [id |-> "r2", name |-> "ops", description |-> ""]>>

\* the replies to the requests about the role of instance i
ConcurrentReplies(i) ==
    Replies({[id |-> ConcurrentRoles[i].id, name |-> "renamed", description |-> "on the server"]})

\* the client of providerMeta, shared by every operation
SharedClient ==
    configure([host |-> [origin |-> "https://wg.example.com", path |-> <<>>],
               token |-> "secret"]).val

\* the URL doRequest builds for a path: a new url.URL with the scheme and host
\* of the base URL and the path joined to the base path
ResolveURL(client, path) ==
    [origin |-> client.baseURL.origin, path |-> client.baseURL.path \o path]

\* a doRequest that joins the path onto the base URL of the client itself
ClientAfterRequestJoined(client, path) == [client EXCEPT !.baseURL.path = @ \o path]

\* the client after doRequest, which reads c.baseURL and c.token, sets the
\* headers of the request it made, and assigns to no field of the client
ClientAfterRequest(client, path) == client

InitConcurrent ==
    /\ kind = "concurrent"
    /\ cfg = ConcurrentRoles
    /\ d = cfg
    /\ upstream \in {<< <<a1, a2>>, <<b1, b2>> >> :
                        a1 \in ConcurrentReplies(1), a2 \in ConcurrentReplies(1),
                        b1 \in ConcurrentReplies(2), b2 \in ConcurrentReplies(2)}
    /\ wire = [client |-> SharedClient, sent |-> << <<>>, <<>> >>]
    /\ calls = << <<>>, <<>> >>
    /\ diags = <<NilErr, NilErr>>
    /\ op = "none"
    /\ phase = <<"update", "update">>

\* one request of instance i went through the client
Requested(i, path) ==
    wire' = [client |-> ClientAfterRequest(wire.client, path),
             sent |-> [wire.sent EXCEPT ![i] = Append(@, ResolveURL(wire.client, path))]]

\* resourceRoleUpdate of instance i up to the return of UpdateRole
ConcurrentUpdate(i) ==
    /\ phase[i] = "update"
    /\ LET dd == d[i]
           reply == upstream[i][1]
           updated(role) ==
               /\ diags' = [diags EXCEPT ![i] = IF role.ok THEN NilErr
                                                ELSE Wrap("failed to update role", role.err)]
               /\ phase' = [phase EXCEPT ![i] = IF role.ok THEN "read" ELSE "done"]
       IN  /\ updated(UpdateRole(dd.id, reply))
           /\ calls' = [calls EXCEPT ![i] =
                           <<Call("PUT", <<"role", dd.id>>,
                                  [Name |-> dd.name, Description |-> dd.description], reply)>>]
           /\ Requested(i, <<"role", dd.id>>)
    /\ op' = [instance |-> i, name |-> "update"]
    /\ UNCHANGED <<kind, cfg, d, upstream>>

\* the resourceRoleRead that resourceRoleUpdate of instance i returns with
ConcurrentRead(i) ==
    /\ phase[i] = "read"
    /\ LET returned(read) ==
               /\ d' = [d EXCEPT ![i] = read.d]
               /\ diags' = [diags EXCEPT ![i] = read.diags]
               /\ calls' = [calls EXCEPT ![i] = @ \o read.calls]
       IN  returned(resourceRoleRead(d[i], upstream[i][2]))
    /\ Requested(i, <<"role", d[i].id>>)
    /\ phase' = [phase EXCEPT ![i] = "done"]
    /\ op' = [instance |-> i, name |-> "read"]
    /\ UNCHANGED <<kind, cfg, upstream>>

NextConcurrent == \E i \in 1..2 : ConcurrentUpdate(i) \/ ConcurrentRead(i)

SpecConcurrent == InitConcurrent /\ [][NextConcurrent]_vars

(***************************************************************************)
(* Properties of SpecConcurrent.                                           *)
(***************************************************************************)
\* what belongs to instance i
Local(i) == <<d[i], calls[i], diags[i], phase[i], wire.sent[i]>>

\* the outcome of the update of instance i run on its own with the same replies
Sequential(i) == resourceRoleUpdate(cfg[i], upstream[i][1], upstream[i][2])

\* C23: operations on two distinct instances through the same client, under
\* every interleaving: the client's base URL and token are never modified, a
\* step of one instance changes nothing of the other, and each instance ends
\* in the state, with the error and after the requests of a run on its own
\* with the same responses.
C23_InstancesIsolated ==
    /\ [](wire.client = SharedClient)
    /\ [][\A i \in 1..2 : op'.instance # i => Local(i)' = Local(i)]_vars
    /\ [](\A i \in 1..2 :
             phase[i] = "done" =>
                /\ d[i] = Sequential(i).d
                /\ diags[i] = Sequential(i).diags
                /\ calls[i] = Sequential(i).calls
                /\ wire.sent[i] = [k \in 1..Len(calls[i]) |->
                                     [origin |-> "https://wg.example.com",
                                      path |-> APIPath \o calls[i][k].path]])

\* C23: the update of "r2" made its second request and ended while the update
\* of "r1" was between its two requests
C23_UpdatesInterleaved ==
    /\ kind = "concurrent" /\ phase = <<"read", "done">>
    /\ op = [instance |-> 2, name |-> "read"]
    /\ Len(calls[1]) = 1 /\ Len(calls[2]) = 2 /\ diags = <<NilErr, NilErr>>
    /\ d[1] = cfg[1] /\ d[2].name = "renamed"
    /\ wire.sent[2] = <<[origin |-> "https://wg.example.com", path |-> APIPath \o <<"role", "r2">>],
                        [origin |-> "https://wg.example.com", path |-> APIPath \o <<"role", "r2">>]>>

====
